---- MODULE Spec2Model ----
(***************************************************************************)
(* Model of the derived-calculation layer of mysticml                      *)
(* (netlify/edge-functions/lib: validateCoordinates, calculateEphemeris,   *)
(* calculateAspects, getMoonPhase, getDailyEvents, getZodiacSign,          *)
(* comparePositions).  Every operation is a pure function of its arguments *)
(* and of what the Position Provider (the Ephemeris library) returns, so   *)
(* the state is the last request, the provider's answer to it, the         *)
(* provider calls it made and its outcome.                                 *)
(*                                                                         *)
(* Numbers.  A JavaScript number is a record [t, v]: t is "number" (v is   *)
(* the value in units of 1/Scale degree, a fixed-point reading of the      *)
(* double), "nan", "inf", "ninf", or "undefined" for a value that is not   *)
(* there at all.  Comparisons and arithmetic follow IEEE-754 on the        *)
(* special values.                                                         *)
(***************************************************************************)
EXTENDS Integers, Sequences, FiniteSets, TLC

\* ------------------------------------------------------------------ bounds
\* longest explicit `bodies` list a request carries
MaxBodies == 2
\* number of equally spaced moon longitudes tried by the lunar phase requests
MoonSteps == 32
\* whole turns added to or taken from a longitude
MaxTurns == 2

\* ------------------------------------------------------- number encoding
\* fixed-point resolution: 1 degree = Scale units (4 decimal places)
Scale == 100 * 100

Num(v) == [t |-> "number", v |-> v]
NaN == [t |-> "nan", v |-> 0]
PosInf == [t |-> "inf", v |-> 0]
NegInf == [t |-> "ninf", v |-> 0]
Undefined == [t |-> "undefined", v |-> 0]

\* d degrees and m ten-thousandths of a degree
Deg(d) == Num(d * Scale)
DegFrac(d, m) == Num(d * Scale + m)

\* typeof x === "number"
IsNumberType(x) == x.t \in {"number", "nan", "inf", "ninf"}
\* isNaN(x): undefined coerces to NaN
isNaN(x) == x.t \in {"nan", "undefined"}
\* truthiness of a number-or-undefined value: 0, NaN and undefined are falsy
Truthy(x) == \/ x.t \in {"inf", "ninf"}
             \/ x.t = "number" /\ x.v # 0

\* x < y, x > y, x <= y on numbers; every comparison with NaN is false
JsLt(x, y) ==
  CASE isNaN(x) \/ isNaN(y) -> FALSE
    [] x.t = "ninf" -> y.t # "ninf"
    [] x.t = "inf" -> FALSE
    [] y.t = "inf" -> TRUE
    [] y.t = "ninf" -> FALSE
    [] OTHER -> x.v < y.v
JsGt(x, y) == JsLt(y, x)
JsLe(x, y) ==
  CASE isNaN(x) \/ isNaN(y) -> FALSE
    [] OTHER -> ~JsLt(y, x)
JsGe(x, y) == JsLe(y, x)

\* -x
JsNeg(x) ==
  CASE x.t = "number" -> Num(-x.v)
    [] x.t = "inf" -> NegInf
    [] x.t = "ninf" -> PosInf
    [] OTHER -> NaN
\* x + y
JsAdd(x, y) ==
  CASE isNaN(x) \/ isNaN(y) -> NaN
    [] x.t = "number" /\ y.t = "number" -> Num(x.v + y.v)
    [] x.t = "number" -> y
    [] y.t = "number" -> x
    [] x.t = y.t -> x
    [] OTHER -> NaN
\* x - y
JsSub(x, y) == JsAdd(x, JsNeg(y))
\* Math.abs(x)
JsAbs(x) ==
  CASE x.t = "number" -> Num(IF x.v < 0 THEN -x.v ELSE x.v)
    [] x.t \in {"inf", "ninf"} -> PosInf
    [] OTHER -> NaN
\* a % b on integers, b > 0: the remainder takes the sign of the dividend
TruncRem(a, b) == IF a >= 0 THEN a % b ELSE -((-a) % b)
\* x % m for a finite positive m given in units
JsRem(x, m) ==
  CASE x.t = "number" -> Num(TruncRem(x.v, m))
    [] OTHER -> NaN
\* Math.round(x * 10^k) / 10^k, with unit == Scale / 10^k: round half up
RoundTo(x, unit) ==
  CASE x.t = "number" -> Num(((x.v + unit \div 2) \div unit) * unit)
    [] x.t \in {"inf", "ninf"} -> x
    [] OTHER -> NaN

\* ------------------------------------------------------------- Math.cos
\* cosines are in units of 1/CosUnit; CosUnit is 100 * Scale so that a
\* percentage (1 + cos)/2 * 100 in units of 1/Scale is (CosUnit + cos)/2
CosUnit == 100 * Scale
\* half a degree, the spacing of CosTable
HalfDeg == Scale \div 2
\* Math.cos at 0, 0.5, 1, ... 180 degrees, rounded to 1/CosUnit
CosTable == <<
  1000000, 999962, 999848, 999657, 999391, 999048, 998630, 998135, 997564, 996917,
  996195, 995396, 994522, 993572, 992546, 991445, 990268, 989016, 987688, 986286,
  984808, 983255, 981627, 979925, 978148, 976296, 974370, 972370, 970296, 968148,
  965926, 963630, 961262, 958820, 956305, 953717, 951057, 948324, 945519, 942641,
  939693, 936672, 933580, 930418, 927184, 923880, 920505, 917060, 913545, 909961,
  906308, 902585, 898794, 894934, 891007, 887011, 882948, 878817, 874620, 870356,
  866025, 861629, 857167, 852640, 848048, 843391, 838671, 833886, 829038, 824126,
  819152, 814116, 809017, 803857, 798636, 793353, 788011, 782608, 777146, 771625,
  766044, 760406, 754710, 748956, 743145, 737277, 731354, 725374, 719340, 713250,
  707107, 700909, 694658, 688355, 681998, 675590, 669131, 662620, 656059, 649448,
  642788, 636078, 629320, 622515, 615661, 608761, 601815, 594823, 587785, 580703,
  573576, 566406, 559193, 551937, 544639, 537300, 529919, 522499, 515038, 507538,
  500000, 492424, 484810, 477159, 469472, 461749, 453990, 446198, 438371, 430511,
  422618, 414693, 406737, 398749, 390731, 382683, 374607, 366501, 358368, 350207,
  342020, 333807, 325568, 317305, 309017, 300706, 292372, 284015, 275637, 267238,
  258819, 250380, 241922, 233445, 224951, 216440, 207912, 199368, 190809, 182236,
  173648, 165048, 156434, 147809, 139173, 130526, 121869, 113203, 104528, 95846,
  87156, 78459, 69756, 61049, 52336, 43619, 34899, 26177, 17452, 8727,
  0, -8727, -17452, -26177, -34899, -43619, -52336, -61049, -69756, -78459,
  -87156, -95846, -104528, -113203, -121869, -130526, -139173, -147809, -156434, -165048,
  -173648, -182236, -190809, -199368, -207912, -216440, -224951, -233445, -241922, -250380,
  -258819, -267238, -275637, -284015, -292372, -300706, -309017, -317305, -325568, -333807,
  -342020, -350207, -358368, -366501, -374607, -382683, -390731, -398749, -406737, -414693,
  -422618, -430511, -438371, -446198, -453990, -461749, -469472, -477159, -484810, -492424,
  -500000, -507538, -515038, -522499, -529919, -537300, -544639, -551937, -559193, -566406,
  -573576, -580703, -587785, -594823, -601815, -608761, -615661, -622515, -629320, -636078,
  -642788, -649448, -656059, -662620, -669131, -675590, -681998, -688355, -694658, -700909,
  -707107, -713250, -719340, -725374, -731354, -737277, -743145, -748956, -754710, -760406,
  -766044, -771625, -777146, -782608, -788011, -793353, -798636, -803857, -809017, -814116,
  -819152, -824126, -829038, -833886, -838671, -843391, -848048, -852640, -857167, -861629,
  -866025, -870356, -874620, -878817, -882948, -887011, -891007, -894934, -898794, -902585,
  -906308, -909961, -913545, -917060, -920505, -923880, -927184, -930418, -933580, -936672,
  -939693, -942641, -945519, -948324, -951057, -953717, -956305, -958820, -961262, -963630,
  -965926, -968148, -970296, -972370, -974370, -976296, -978148, -979925, -981627, -983255,
  -984808, -986286, -987688, -989016, -990268, -991445, -992546, -993572, -994522, -995396,
  -996195, -996917, -997564, -998135, -998630, -999048, -999391, -999657, -999848, -999962,
  -1000000 >>

\* cosine of u units of angle, 0 <= u <= 180 degrees: linear interpolation
CosUnits(u) ==
  LET i == u \div HalfDeg
      r == u % HalfDeg
  IN IF r = 0 THEN CosTable[i + 1]
     ELSE CosTable[i + 1] + ((CosTable[i + 2] - CosTable[i + 1]) * r) \div HalfDeg

\* Math.cos((x * Math.PI) / 180) for x in degree units, any finite x
\* (cos is even and has period 360); NaN for NaN and the infinities
JsCosDeg(x) ==
  CASE x.t = "number" ->
         LET a == IF x.v < 0 THEN -x.v ELSE x.v
             m == a % (360 * Scale)
         IN CosUnits(IF m > 180 * Scale THEN 360 * Scale - m ELSE m)
    [] OTHER -> 0   \* callers test for a finite argument first

\* ------------------------------------------------------------------ bodies
PLANETARY_BODIES == <<"mercury", "venus", "earth", "mars", "jupiter",
                      "saturn", "uranus", "neptune", "pluto">>
LUMINARIES == <<"sun", "moon">>
STARS == <<"sirius">>
ASTEROIDS == <<"chiron">>
ALL_BODIES == PLANETARY_BODIES \o LUMINARIES \o STARS \o ASTEROIDS

Range(s) == {s[i] : i \in DOMAIN s}
BodySet == Range(ALL_BODIES)

\* --------------------------------------------------------------- validator
ValidResult == [isValid |-> TRUE, error |-> "undefined"]
Invalid(msg) == [isValid |-> FALSE, error |-> msg]

\* mutant: the longitude range is tested before the latitude range
validateCoordinates_LongitudeFirst(latitude, longitude) ==
  IF isNaN(latitude) \/ isNaN(longitude)
    THEN Invalid("Invalid latitude or longitude")
  ELSE IF JsLt(longitude, Deg(-180)) \/ JsGt(longitude, Deg(180))
    THEN Invalid("Longitude must be between -180 and 180")
  ELSE IF JsLt(latitude, Deg(-90)) \/ JsGt(latitude, Deg(90))
    THEN Invalid("Latitude must be between -90 and 90")
  ELSE ValidResult

validateCoordinates(latitude, longitude) ==
  IF isNaN(latitude) \/ isNaN(longitude)
    THEN Invalid("Invalid latitude or longitude")
  ELSE IF JsLt(latitude, Deg(-90)) \/ JsGt(latitude, Deg(90))
    THEN Invalid("Latitude must be between -90 and 90")
  ELSE IF JsLt(longitude, Deg(-180)) \/ JsGt(longitude, Deg(180))
    THEN Invalid("Longitude must be between -180 and 180")
  ELSE ValidResult

\* ------------------------------------------------------- Position Provider
\* A body's position as the provider returns it.  present = FALSE is a body
\* the provider has no position for (ephemeris[body]?.position is undefined);
\* hasAltaz says whether the position carries an altaz.topocentric record.
Position(apparentLongitude, longitude, hasAltaz, altitude, azimuth) ==
  [present |-> TRUE, apparentLongitude |-> apparentLongitude,
   longitude |-> longitude, hasAltaz |-> hasAltaz,
   altitude |-> altitude, azimuth |-> azimuth]
\* results[body] = undefined, and what reading a missing key gives
AbsentPos ==
  [present |-> FALSE, apparentLongitude |-> Undefined, longitude |-> Undefined,
   hasAltaz |-> FALSE, altitude |-> Undefined, azimuth |-> Undefined]
\* a position with ecliptic longitude lon and some topocentric data
AtLongitude(lon) == Position(lon, Undefined, TRUE, Deg(10), Deg(100))

\* milliseconds per minute and per day (Date arithmetic)
MsPerMinute == 60 * 1000
MsPerDay == 24 * 60 * MsPerMinute

\* The provider is constructed from year, month, day, hours and minutes:
\* the instant truncated to its minute
ProviderMinute(t) == t \div MsPerMinute

\* One answer of the provider: it throws, or returns a table of positions
Throws == [throws |-> TRUE, tab |-> [b \in BodySet |-> AbsentPos]]
Answer(tab) == [throws |-> FALSE, tab |-> tab]

\* ------------------------------------------------------ calculateEphemeris
\* First occurrence order of the keys written by results[body] = ...
RECURSIVE Dedup(_)
Dedup(s) ==
  IF s = <<>> THEN <<>>
  ELSE LET init == Dedup(SubSeq(s, 1, Len(s) - 1))
           last == s[Len(s)]
       IN IF last \in Range(init) THEN init ELSE Append(init, last)

\* parseDateTime: the given instant, or the clock when none is given
parseDateTime(datetime, now) == IF datetime.given THEN datetime.t ELSE now

Thrown(msg, calls) ==
  [ok |-> FALSE, error |-> msg, calls |-> calls, keys |-> <<>>,
   val |-> [b \in BodySet |-> AbsentPos]]

\* mutant: only an omitted list defaults (bodies ? bodies : ALL_BODIES)
CelestialBodies_OmittedOnly(bodies) ==
  IF bodies.given THEN bodies.list ELSE ALL_BODIES

\* bodies && bodies.length > 0 ? bodies : ALL_BODIES
CelestialBodies(bodies) ==
  IF bodies.given /\ Len(bodies.list) > 0 THEN bodies.list ELSE ALL_BODIES

\* mutant: a body without a position gets no key (the else branch is gone)
ResultKeys_OmitAbsent(celestialBodies, tab) ==
  LET Has(b) == tab[b].present
  IN SelectSeq(Dedup(celestialBodies), Has)

\* the keys of results after the loop over celestialBodies: every body of
\* the list gets its key, with a position or with undefined
ResultKeys(celestialBodies, tab) == Dedup(celestialBodies)

\* mutant: the provider is constructed before the coordinates are validated
calculateEphemeris_ValidateLate(params, sk) ==
  LET validation == validateCoordinates(params.latitude, params.longitude)
      minute == ProviderMinute(parseDateTime(params.datetime, params.now))
      celestialBodies == CelestialBodies(params.bodies)
      call == [minute |-> minute, latitude |-> params.latitude,
               longitude |-> params.longitude]
  IN IF sk[minute].throws THEN Thrown("ProviderError", <<call>>)
     ELSE IF ~validation.isValid THEN Thrown(validation.error, <<call>>)
     ELSE [ok |-> TRUE, error |-> "", calls |-> <<call>>,
           keys |-> ResultKeys(celestialBodies, sk[minute].tab),
           val |-> [b \in BodySet |->
                      IF b \in Range(celestialBodies) /\ sk[minute].tab[b].present
                        THEN sk[minute].tab[b] ELSE AbsentPos]]

\* params: [latitude, longitude, datetime, bodies, now]; sk: the provider,
\* a function from minutes to answers.  The outcome carries the provider
\* calls made (calls), the keys of the result in insertion order (keys) and
\* the value read under each body (val; undefined reads as AbsentPos).
calculateEphemeris(params, sk) ==
  LET validation == validateCoordinates(params.latitude, params.longitude)
      minute == ProviderMinute(parseDateTime(params.datetime, params.now))
      celestialBodies == CelestialBodies(params.bodies)
      call == [minute |-> minute, latitude |-> params.latitude,
               longitude |-> params.longitude]
  IN IF ~validation.isValid THEN Thrown(validation.error, <<>>)
     ELSE IF sk[minute].throws THEN Thrown("ProviderError", <<call>>)
     ELSE [ok |-> TRUE, error |-> "", calls |-> <<call>>,
           keys |-> ResultKeys(celestialBodies, sk[minute].tab),
           val |-> [b \in BodySet |->
                      IF b \in Range(celestialBodies) /\ sk[minute].tab[b].present
                        THEN sk[minute].tab[b] ELSE AbsentPos]]

\* -------------------------------------------------------- calculateAspects
\* mutant: the table also holds the semisquare, 45 degrees
majorAspects_WithSemisquare ==
  << [name |-> "conjunction", angle |-> Deg(0)],
     [name |-> "semisquare", angle |-> Deg(45)],
     [name |-> "sextile", angle |-> Deg(60)],
     [name |-> "square", angle |-> Deg(90)],
     [name |-> "trine", angle |-> Deg(120)],
     [name |-> "opposition", angle |-> Deg(180)] >>

\* const majorAspects
majorAspects ==
  << [name |-> "conjunction", angle |-> Deg(0)],
     [name |-> "sextile", angle |-> Deg(60)],
     [name |-> "square", angle |-> Deg(90)],
     [name |-> "trine", angle |-> Deg(120)],
     [name |-> "opposition", angle |-> Deg(180)] >>

\* a ?? b
Nullish(a, b) == IF a.t = "undefined" THEN b ELSE a

\* the longitude the analyzer reads from a position record
AspectLongitude(data) == Nullish(data.apparentLongitude, data.longitude)

\* data && typeof data === "object" && typeof longitude === "number"
\* && !isNaN(longitude)
UsableLongitude(data) ==
  /\ data.present
  /\ IsNumberType(AspectLongitude(data))
  /\ ~isNaN(AspectLongitude(data))

\* args.orb || 8
OrbUsed(orb) == IF orb.given /\ Truthy(orb.v) THEN orb.v ELSE Deg(8)

\* mutant: the difference is taken without Math.abs
PairAngle_Signed(p1, p2) == JsSub(p1, p2)

\* Math.abs(positions[body1] - positions[body2])
PairAngle(p1, p2) == JsAbs(JsSub(p1, p2))
\* angle > 180 ? 360 - angle : angle
NormalizedAngle(angle) ==
  IF JsGt(angle, Deg(180)) THEN JsSub(Deg(360), angle) ELSE angle
\* Math.abs(normalizedAngle - aspect.angle)
AspectOrb(normalizedAngle, aspect) == JsAbs(JsSub(normalizedAngle, aspect.angle))

\* mutant: the orb limit is exclusive
WithinOrb_Strict(orb, limit) == JsLt(orb, limit)

\* orb <= (args.orb || 8)
WithinOrb(orb, limit) == JsLe(orb, limit)

\* args: [latitude, longitude, datetime, orb, bodies, now]
calculateAspects(args, sk) ==
  LET result == calculateEphemeris(
                  [latitude |-> args.latitude, longitude |-> args.longitude,
                   datetime |-> args.datetime, bodies |-> args.bodies,
                   now |-> args.now], sk)
      IsUsable(b) == UsableLongitude(result.val[b])
      bodyNames == SelectSeq(result.keys, IsUsable)
      positions == [b \in BodySet |-> AspectLongitude(result.val[b])]
      n == Len(bodyNames)
      nAsp == Len(majorAspects)
      \* the loops over i, j > i and the aspect table, in execution order
      I(x) == ((x - 1) \div (n * nAsp)) + 1
      J(x) == (((x - 1) \div nAsp) % n) + 1
      K(x) == ((x - 1) % nAsp) + 1
      Norm(x) == NormalizedAngle(PairAngle(positions[bodyNames[I(x)]],
                                           positions[bodyNames[J(x)]]))
      Hit(x) == /\ J(x) > I(x)
                /\ WithinOrb(AspectOrb(Norm(x), majorAspects[K(x)]), OrbUsed(args.orb))
      hits == SelectSeq([x \in 1 .. n * n * nAsp |-> x], Hit)
      aspects ==
        [h \in 1 .. Len(hits) |->
           LET x == hits[h]
               orb == AspectOrb(Norm(x), majorAspects[K(x)])
           IN [body1 |-> bodyNames[I(x)], body2 |-> bodyNames[J(x)],
               aspect |-> majorAspects[K(x)].name, angle |-> Norm(x),
               orb |-> orb, exact |-> JsLt(orb, Deg(1))]]
  IN IF ~result.ok
       THEN [ok |-> FALSE, error |-> result.error, calls |-> result.calls,
             value |-> [aspects |-> <<>>, orb_used |-> Undefined]]
     ELSE IF n < 2
       THEN [ok |-> FALSE,
             error |-> "Need at least 2 bodies with valid positions to calculate aspects",
             calls |-> result.calls,
             value |-> [aspects |-> <<>>, orb_used |-> Undefined]]
     ELSE [ok |-> TRUE, error |-> "", calls |-> result.calls,
           value |-> [aspects |-> aspects, orb_used |-> OrbUsed(args.orb)]]

\* ------------------------------------------------------------ getMoonPhase
\* (moonLon - sunLon + 360) % 360
Elongation(sunLon, moonLon) ==
  JsRem(JsAdd(JsSub(moonLon, sunLon), Deg(360)), 360 * Scale)
\* mutant: the elongation itself is used as the phase angle
PhaseAngle_Elongation(elongation) == elongation

\* Math.abs(180 - elongation)
PhaseAngle(elongation) == JsAbs(JsSub(Deg(180), elongation))
\* ((1 + Math.cos((phaseAngle * Math.PI) / 180)) / 2) * 100, in percent units
Illumination(phaseAngle) ==
  IF phaseAngle.t = "number"
    THEN Num((CosUnit + JsCosDeg(phaseAngle)) \div 2)
    ELSE NaN
\* 22.5 degrees and its odd multiples bound the phases
PhaseBound(k) == Num(k * 45 * HalfDeg)
\* mutant: the wrap-around test elongation >= 337.5 is missing
PhaseName_NoWrap(elongation) ==
  IF JsLt(elongation, PhaseBound(1)) THEN "New Moon"
  ELSE IF JsLt(elongation, PhaseBound(3)) THEN "Waxing Crescent"
  ELSE IF JsLt(elongation, PhaseBound(5)) THEN "First Quarter"
  ELSE IF JsLt(elongation, PhaseBound(7)) THEN "Waxing Gibbous"
  ELSE IF JsLt(elongation, PhaseBound(9)) THEN "Full Moon"
  ELSE IF JsLt(elongation, PhaseBound(11)) THEN "Waning Gibbous"
  ELSE IF JsLt(elongation, PhaseBound(13)) THEN "Third Quarter"
  ELSE "Waning Crescent"

PhaseName(elongation) ==
  IF JsLt(elongation, PhaseBound(1)) \/ JsGe(elongation, PhaseBound(15))
    THEN "New Moon"
  ELSE IF JsLt(elongation, PhaseBound(3)) THEN "Waxing Crescent"
  ELSE IF JsLt(elongation, PhaseBound(5)) THEN "First Quarter"
  ELSE IF JsLt(elongation, PhaseBound(7)) THEN "Waxing Gibbous"
  ELSE IF JsLt(elongation, PhaseBound(9)) THEN "Full Moon"
  ELSE IF JsLt(elongation, PhaseBound(11)) THEN "Waning Gibbous"
  ELSE IF JsLt(elongation, PhaseBound(13)) THEN "Third Quarter"
  ELSE "Waning Crescent"

\* Math.round(x * 100) / 100 and Math.round(x * 1000) / 1000
Round2(x) == RoundTo(x, Scale \div 100)
Round3(x) == RoundTo(x, Scale \div 1000)

\* !result.sun?.apparentLongitude || !result.moon?.apparentLongitude
MoonPhaseDataMissing(sunLon, moonLon) == ~Truthy(sunLon) \/ ~Truthy(moonLon)

NoPhase ==
  [phase |-> "", illumination |-> Undefined, elongation |-> Undefined,
   phase_angle |-> Undefined, sun_longitude |-> Undefined,
   moon_longitude |-> Undefined]

\* args: [datetime, now]
getMoonPhase(args, sk) ==
  LET result == calculateEphemeris(
                  [latitude |-> Deg(0), longitude |-> Deg(0),
                   datetime |-> args.datetime,
                   bodies |-> [given |-> TRUE, list |-> <<"sun", "moon">>],
                   now |-> args.now], sk)
      sunLon == result.val["sun"].apparentLongitude
      moonLon == result.val["moon"].apparentLongitude
      elongation == Elongation(sunLon, moonLon)
      phaseAngle == PhaseAngle(elongation)
  IN IF ~result.ok
       THEN [ok |-> FALSE, error |-> result.error, calls |-> result.calls,
             value |-> NoPhase]
     ELSE IF MoonPhaseDataMissing(sunLon, moonLon)
       THEN [ok |-> FALSE, error |-> "Failed to calculate sun or moon position",
             calls |-> result.calls, value |-> NoPhase]
     ELSE [ok |-> TRUE, error |-> "", calls |-> result.calls,
           value |-> [phase |-> PhaseName(elongation),
                      illumination |-> Round2(Illumination(phaseAngle)),
                      elongation |-> Round2(elongation),
                      phase_angle |-> Round2(phaseAngle),
                      sun_longitude |-> Round2(sunLon),
                      moon_longitude |-> Round2(moonLon)]]

\* ---------------------------------------------------------- getDailyEvents
\* for (let hour = 0; hour < 24; hour += 0.25): the number of samples
HoursPerDay == 24
SamplesPerHour == 4
NumSamples == HoursPerDay * SamplesPerHour
\* events.slice(0, 6)
MaxEvents == 6

\* mutant: the k-th sample is taken k quarters of an hour after the input
\* instant
TestDate_FromInput(date, k) == date + k * (60 \div SamplesPerHour) * MsPerMinute

\* testDate.setUTCHours(Math.floor(hour), (hour % 1) * 60, 0, 0) for the
\* k-th step (k = 0, 1, ...): same UTC day as date, seconds and ms zero
TestDate(date, k) ==
  (date \div MsPerDay) * MsPerDay + k * (60 \div SamplesPerHour) * MsPerMinute

\* the state of the scan before any sample; previousAltitude and
\* maxAltitudeTime start as null
ScanInit ==
  [ok |-> TRUE, error |-> "", calls |-> <<>>, events |-> <<>>,
   previousAltitude |-> Undefined, maxAltitude |-> Deg(-90),
   maxAltitudeTime |-> [given |-> FALSE, t |-> 0]]

\* mutant: a skipped sample makes the scan forget the previous altitude
Continue_ForgetsPrevious(st, calls) ==
  [st EXCEPT !.calls = st.calls \o calls, !.previousAltitude = Undefined]

\* continue: the sample is left after its provider call, the loop goes on
Continue(st, calls) == [st EXCEPT !.calls = st.calls \o calls]

\* mutant: an altitude equal to the running maximum replaces it
ExceedsMaximum_OrEquals(altitude, maxAltitude) == JsGe(altitude, maxAltitude)

\* if (altitude > maxAltitude)
ExceedsMaximum(altitude, maxAltitude) == JsGt(altitude, maxAltitude)

\* mutant: a sample whose provider call throws is skipped like a gap
\* (try { ... } catch { continue })
ScanStep_SkipFailure(st, args, date, sk, k) ==
  LET testDate == TestDate(date, k)
      result == calculateEphemeris(
                  [latitude |-> args.latitude, longitude |-> args.longitude,
                   datetime |-> [given |-> TRUE, t |-> testDate],
                   bodies |-> [given |-> TRUE, list |-> <<args.body>>],
                   now |-> args.now], sk)
      bodyData == result.val[args.body]
      altitude == bodyData.altitude
      azimuth == bodyData.azimuth
      newMax == ExceedsMaximum(altitude, st.maxAltitude)
      Event(kind) == [event |-> kind, time |-> testDate,
                      altitude |-> Round2(altitude), azimuth |-> Round2(azimuth)]
      hasPrev == st.previousAltitude.t # "undefined"
      rising == hasPrev /\ JsLt(st.previousAltitude, Deg(0)) /\ JsGt(altitude, Deg(0))
      setting == hasPrev /\ ~rising
                 /\ JsGt(st.previousAltitude, Deg(0)) /\ JsLt(altitude, Deg(0))
  IN IF ~st.ok THEN st
     ELSE IF ~result.ok
       THEN Continue(st, result.calls)
     ELSE IF ~bodyData.present \/ ~bodyData.hasAltaz
       THEN Continue(st, result.calls)
     ELSE IF ~IsNumberType(altitude) \/ ~IsNumberType(azimuth)
       THEN Continue(st, result.calls)
     ELSE [st EXCEPT
             !.calls = st.calls \o result.calls,
             !.maxAltitude = IF newMax THEN altitude ELSE st.maxAltitude,
             !.maxAltitudeTime = IF newMax THEN [given |-> TRUE, t |-> testDate]
                                 ELSE st.maxAltitudeTime,
             !.events = IF rising THEN Append(st.events, Event("rising"))
                        ELSE IF setting THEN Append(st.events, Event("setting"))
                        ELSE st.events,
             !.previousAltitude = altitude]

\* one iteration of the loop body on scan state st, at sample k
ScanStep(st, args, date, sk, k) ==
  LET testDate == TestDate(date, k)
      result == calculateEphemeris(
                  [latitude |-> args.latitude, longitude |-> args.longitude,
                   datetime |-> [given |-> TRUE, t |-> testDate],
                   bodies |-> [given |-> TRUE, list |-> <<args.body>>],
                   now |-> args.now], sk)
      bodyData == result.val[args.body]
      altitude == bodyData.altitude
      azimuth == bodyData.azimuth
      newMax == ExceedsMaximum(altitude, st.maxAltitude)
      Event(kind) == [event |-> kind, time |-> testDate,
                      altitude |-> Round2(altitude), azimuth |-> Round2(azimuth)]
      hasPrev == st.previousAltitude.t # "undefined"
      rising == hasPrev /\ JsLt(st.previousAltitude, Deg(0)) /\ JsGt(altitude, Deg(0))
      setting == hasPrev /\ ~rising
                 /\ JsGt(st.previousAltitude, Deg(0)) /\ JsLt(altitude, Deg(0))
  IN IF ~st.ok THEN st
     ELSE IF ~result.ok
       THEN [st EXCEPT !.ok = FALSE, !.error = result.error,
                       !.calls = st.calls \o result.calls]
     ELSE IF ~bodyData.present \/ ~bodyData.hasAltaz
       THEN Continue(st, result.calls)
     ELSE IF ~IsNumberType(altitude) \/ ~IsNumberType(azimuth)
       THEN Continue(st, result.calls)
     ELSE [st EXCEPT
             !.calls = st.calls \o result.calls,
             !.maxAltitude = IF newMax THEN altitude ELSE st.maxAltitude,
             !.maxAltitudeTime = IF newMax THEN [given |-> TRUE, t |-> testDate]
                                 ELSE st.maxAltitudeTime,
             !.events = IF rising THEN Append(st.events, Event("rising"))
                        ELSE IF setting THEN Append(st.events, Event("setting"))
                        ELSE st.events,
             !.previousAltitude = altitude]

\* the loop over the samples lo .. hi-1, started in scan state st (the
\* range is halved so that the evaluation stays shallow; the samples are
\* still processed in increasing order)
RECURSIVE ScanRange(_, _, _, _, _, _)
ScanRange(st, args, date, sk, lo, hi) ==
  IF hi <= lo THEN st
  ELSE IF hi = lo + 1 THEN ScanStep(st, args, date, sk, lo)
  ELSE LET mid == (lo + hi) \div 2
           left == ScanRange(st, args, date, sk, lo, mid)
       IN IF left.ok \in BOOLEAN
            THEN ScanRange(left, args, date, sk, mid, hi)
            ELSE left

\* the scan state after the samples 0 .. k-1
Scan(args, date, sk, k) == ScanRange(ScanInit, args, date, sk, 0, k)

\* mutant: the events are left in the order they were pushed
SortByTime_None(events) == events

\* events.sort((a, b) => time(a) - time(b)): a stable sort by time
RECURSIVE SortByTime(_)
SortByTime(events) ==
  IF events = <<>> THEN <<>>
  ELSE LET init == SortByTime(SubSeq(events, 1, Len(events) - 1))
           last == events[Len(events)]
           NotAfter(e) == e.time <= last.time
           After(e) == e.time > last.time
       IN SelectSeq(init, NotAfter) \o <<last>> \o SelectSeq(init, After)

\* events.slice(0, 6)
Slice(events, n) == SubSeq(events, 1, IF Len(events) < n THEN Len(events) ELSE n)

\* mutant: the culmination is pushed whenever a maximum was recorded,
\* whatever its altitude
WithCulmination_AnyAltitude(st) ==
  IF st.maxAltitudeTime.given
    THEN Append(st.events,
                [event |-> "culmination", time |-> st.maxAltitudeTime.t,
                 altitude |-> Round2(st.maxAltitude), azimuth |-> Deg(180)])
    ELSE st.events

\* events after the culmination has been pushed
WithCulmination(st) ==
  IF st.maxAltitudeTime.given /\ JsGt(st.maxAltitude, Deg(0))
    THEN Append(st.events,
                [event |-> "culmination", time |-> st.maxAltitudeTime.t,
                 altitude |-> Round2(st.maxAltitude), azimuth |-> Deg(180)])
    ELSE st.events

\* args: [latitude, longitude, datetime, body, now]
getDailyEvents(args, sk) ==
  LET date == parseDateTime(args.datetime, args.now)
      st == Scan(args, date, sk, NumSamples)
  IN IF ~st.ok
       THEN [ok |-> FALSE, error |-> st.error, calls |-> st.calls,
             value |-> [body |-> args.body, date |-> 0, events |-> <<>>]]
     ELSE [ok |-> TRUE, error |-> "", calls |-> st.calls,
           value |-> [body |-> args.body, date |-> date \div MsPerDay,
                      events |-> Slice(SortByTime(WithCulmination(st)), MaxEvents)]]

\* ----------------------------------------------------------- getZodiacSign
signs == <<"Aries", "Taurus", "Gemini", "Cancer", "Leo", "Virgo", "Libra",
           "Scorpio", "Sagittarius", "Capricorn", "Aquarius", "Pisces">>

\* mutant: longitude % 360 alone, which keeps the sign of a negative longitude
NormalizeLongitude_SingleRem(longitude) == JsRem(longitude, 360 * Scale)

\* ((longitude % 360) + 360) % 360
NormalizeLongitude(longitude) ==
  JsRem(JsAdd(JsRem(longitude, 360 * Scale), Deg(360)), 360 * Scale)

\* mutant: the sign nearest to the longitude, Math.round(longitude / 30)
SignOf_Nearest(longitude) ==
  IF longitude.t # "number" THEN "undefined"
  ELSE LET signIndex == (longitude.v + 15 * Scale) \div (30 * Scale)
           idx == IF signIndex < Len(signs) - 1 THEN signIndex ELSE Len(signs) - 1
       IN IF idx < 0 THEN "undefined" ELSE signs[idx + 1]

\* signs[Math.min(Math.floor(longitude / 30), signs.length - 1)]; indexing
\* with NaN or a negative index reads undefined
SignOf(longitude) ==
  IF longitude.t # "number" THEN "undefined"
  ELSE LET signIndex == longitude.v \div (30 * Scale)
           idx == IF signIndex < Len(signs) - 1 THEN signIndex ELSE Len(signs) - 1
       IN IF idx < 0 THEN "undefined" ELSE signs[idx + 1]

\* Math.floor(x) of a value in units, as a whole number of degrees
FloorDeg(x) == IF x.t = "number" THEN Deg(x.v \div Scale) ELSE x

NoSign ==
  [body |-> "", longitude |-> Undefined, sign |-> "", degree |-> Undefined,
   position |-> [degree |-> Undefined, sign |-> ""]]

\* args: [latitude, longitude, datetime, body, now]
getZodiacSign(args, sk) ==
  LET result == calculateEphemeris(
                  [latitude |-> args.latitude, longitude |-> args.longitude,
                   datetime |-> args.datetime,
                   bodies |-> [given |-> TRUE, list |-> <<args.body>>],
                   now |-> args.now], sk)
      bodyData == result.val[args.body]
      longitude == NormalizeLongitude(bodyData.apparentLongitude)
      degree == JsRem(longitude, 30 * Scale)
      sign == SignOf(longitude)
  IN IF ~result.ok
       THEN [ok |-> FALSE, error |-> result.error, calls |-> result.calls,
             value |-> NoSign]
     ELSE IF ~bodyData.present
       THEN [ok |-> FALSE, error |-> "No data available for " \o args.body,
             calls |-> result.calls, value |-> NoSign]
     ELSE [ok |-> TRUE, error |-> "", calls |-> result.calls,
           value |-> [body |-> args.body, longitude |-> Round3(longitude),
                      sign |-> sign, degree |-> Round3(degree),
                      position |-> [degree |-> FloorDeg(degree), sign |-> sign]]]

\* -------------------------------------------------------- comparePositions
\* mutant: the plain difference pos2 - pos1
Movement_NoWrap(pos1, pos2) == JsSub(pos2, pos1)

\* ((pos2 - pos1 + 540) % 360) - 180
Movement(pos1, pos2) ==
  JsSub(JsRem(JsAdd(JsSub(pos2, pos1), Deg(540)), 360 * Scale), Deg(180))
\* mutant: movement >= 0 ? "forward" : "retrograde"
Direction_NonNegative(movement) ==
  IF JsGe(movement, Deg(0)) THEN "forward" ELSE "retrograde"

\* movement > 0 ? "forward" : "retrograde"
Direction(movement) == IF JsGt(movement, Deg(0)) THEN "forward" ELSE "retrograde"

\* mutant: only the position at date1 is looked at (if (!data1) continue)
Compared_FirstOnly(data1, data2) == data1.present

\* the negation of `if (!data1 || !data2) continue`
Compared(data1, data2) == data1.present /\ data2.present

NoEntry ==
  [date1_position |-> Undefined, date2_position |-> Undefined,
   movement |-> Undefined, direction |-> ""]

\* args: [latitude, longitude, date1, date2, bodies, now]
comparePositions(args, sk) ==
  LET result1 == calculateEphemeris(
                   [latitude |-> args.latitude, longitude |-> args.longitude,
                    datetime |-> [given |-> TRUE, t |-> args.date1],
                    bodies |-> args.bodies, now |-> args.now], sk)
      result2 == calculateEphemeris(
                   [latitude |-> args.latitude, longitude |-> args.longitude,
                    datetime |-> [given |-> TRUE, t |-> args.date2],
                    bodies |-> args.bodies, now |-> args.now], sk)
      \* args.bodies || ALL_BODIES: an empty list is truthy
      loopBodies == IF args.bodies.given THEN args.bodies.list ELSE ALL_BODIES
      Both(b) == Compared(result1.val[b], result2.val[b])
      Entry(b) ==
        LET pos1 == result1.val[b].apparentLongitude
            pos2 == result2.val[b].apparentLongitude
            movement == Movement(pos1, pos2)
        IN [date1_position |-> Round3(pos1), date2_position |-> Round3(pos2),
            movement |-> Round3(movement), direction |-> Direction(movement)]
      none == [keys |-> <<>>, val |-> [b \in BodySet |-> NoEntry]]
  IN IF ~result1.ok
       THEN [ok |-> FALSE, error |-> result1.error, calls |-> result1.calls,
             value |-> [date1 |-> args.date1, date2 |-> args.date2,
                        comparison |-> none]]
     ELSE IF ~result2.ok
       THEN [ok |-> FALSE, error |-> result2.error,
             calls |-> result1.calls \o result2.calls,
             value |-> [date1 |-> args.date1, date2 |-> args.date2,
                        comparison |-> none]]
     ELSE [ok |-> TRUE, error |-> "",
           calls |-> result1.calls \o result2.calls,
           value |-> [date1 |-> args.date1, date2 |-> args.date2,
                      comparison |->
                        [keys |-> Dedup(SelectSeq(loopBodies, Both)),
                         val |-> [b \in BodySet |->
                                    IF b \in Range(loopBodies) /\ Both(b)
                                      THEN Entry(b) ELSE NoEntry]]]]

\* ================================================================= state
\* op:   the operation of the last request ("none" before the first)
\* args: its arguments (the fields an operation does not take keep the
\*       defaults of NoArgs); args.now is the clock read by new Date()
\* sky:  the Position Provider during the request, minute |-> answer
\* out:  the outcome: ok or thrown error, the provider calls made, the value
VARIABLES op, args, sky, out
vars == <<op, args, sky, out>>

Omitted == [given |-> FALSE, list |-> <<>>]
Given(list) == [given |-> TRUE, list |-> list]
NoTime == [given |-> FALSE, t |-> 0]
At(t) == [given |-> TRUE, t |-> t]
NoOrb == [given |-> FALSE, v |-> Undefined]
Orb(v) == [given |-> TRUE, v |-> v]

NoArgs ==
  [latitude |-> Undefined, longitude |-> Undefined, datetime |-> NoTime,
   bodies |-> Omitted, orb |-> NoOrb, body |-> "", date1 |-> 0, date2 |-> 0,
   now |-> 0]

\* ------------------------------------------------------------ input sets
\* sequences over S of length at most n
SeqsUpTo(S, n) == UNION {[1 .. k -> S] : k \in 0 .. n}

\* instants: 06:00:00.000 and 12:34:56.789 of day 0, 23:59:59.999 of day 1
Morning == 6 * 60 * MsPerMinute
Midday == (12 * 60 + 34) * MsPerMinute + 56789
LateNextDay == 2 * MsPerDay - 1
\* the clock of every request
Clock == Morning
DateTimes == {NoTime, At(Midday)}

LatValues ==
  {NaN, NegInf, Deg(-91), DegFrac(-90, -1), Deg(-90), Deg(0),
   DegFrac(40, 7128), Deg(90), DegFrac(90, 1), Deg(100), PosInf}
LonValues ==
  {NaN, NegInf, Deg(-181), DegFrac(-180, -1), Deg(-180),
   DegFrac(-74, -60), Deg(0), Deg(180), DegFrac(180, 1), Deg(181), PosInf}

\* the coordinates the operations are requested with: valid ones, and one
\* of each way of being invalid (and of being invalid twice)
Coord(lat, lon) == [latitude |-> lat, longitude |-> lon]
ValidCoords == {Coord(Deg(0), Deg(0)), Coord(Deg(90), Deg(-180))}
InvalidCoords ==
  {Coord(Deg(91), Deg(0)), Coord(Deg(0), Deg(181)), Coord(NaN, Deg(0)),
   Coord(Deg(-91), Deg(-181)), Coord(Deg(100), NaN)}
OpCoords == ValidCoords \cup InvalidCoords

\* the provider's table when nothing else is said: every body but the
\* observer's own has a position, 27 degrees apart starting at 3
BodyIndex(b) == CHOOSE i \in 1 .. Len(ALL_BODIES) : ALL_BODIES[i] = b
BaseTable ==
  [b \in BodySet |->
     IF b = "earth" THEN AbsentPos ELSE AtLongitude(Deg(BodyIndex(b) * 27 - 24))]
\* a provider giving the same answer at every minute in ms
ConstSky(ms, answer) == [m \in ms |-> answer]
RequestMinute(dt) == ProviderMinute(parseDateTime(dt, Clock))

\* nothing is kept between requests: the state between two requests
Idle ==
  /\ op = "none"
  /\ args = NoArgs
  /\ sky = ConstSky({}, Throws)
  /\ out = [ok |-> TRUE, error |-> "", calls |-> <<>>, value |-> <<>>]

Init == Idle

\* the outcome has been returned and every value of the request is dropped
Respond ==
  /\ op # "none"
  /\ op' = "none"
  /\ args' = NoArgs
  /\ sky' = ConstSky({}, Throws)
  /\ out' = [ok |-> TRUE, error |-> "", calls |-> <<>>, value |-> <<>>]

\* ------------------------------------------------------------- operations
\* validateCoordinates(latitude, longitude)
ValidateCoordinates ==
  /\ op = "none"
  /\ \E lat \in LatValues, lon \in LonValues :
    /\ op' = "validateCoordinates"
    /\ args' = [NoArgs EXCEPT !.latitude = lat, !.longitude = lon]
    /\ sky' = ConstSky({}, Throws)
    /\ out' = [ok |-> TRUE, error |-> "", calls |-> <<>>,
               value |-> validateCoordinates(lat, lon)]

\* the bodies a request may name, and the lists it may carry
ReqBodies == {"sun", "moon", "earth", "mars"}
BodyLists == {Omitted} \cup {Given(l) : l \in SeqsUpTo(ReqBodies, MaxBodies)}

\* tables for the aggregate: who has a position
EphemerisAnswers ==
  {Answer(BaseTable),
   Answer([BaseTable EXCEPT !["earth"] = AtLongitude(Deg(100))]),
   Answer([BaseTable EXCEPT !["sun"] = AbsentPos, !["mars"] = AbsentPos]),
   Throws}

\* getEphemerisData(args) = calculateEphemeris(args)
GetEphemerisData ==
  /\ op = "none"
  /\ \E c \in OpCoords, dt \in DateTimes, bl \in BodyLists, a \in EphemerisAnswers :
    LET a2 == [NoArgs EXCEPT !.latitude = c.latitude, !.longitude = c.longitude,
                             !.datetime = dt, !.bodies = bl, !.now = Clock]
        sk == ConstSky({RequestMinute(dt)}, a)
        r == calculateEphemeris(a2, sk)
    IN /\ op' = "getEphemerisData"
       /\ args' = a2
       /\ sky' = sk
       /\ out' = [ok |-> r.ok, error |-> r.error, calls |-> r.calls,
                  value |-> [keys |-> r.keys, val |-> r.val]]

\* a request's arguments and the coordinates the costly families are tried
\* with: one valid pair, and every invalid one against a provider that
\* answers and one that throws
WithCoords(c, a) == [a EXCEPT !.latitude = c.latitude, !.longitude = c.longitude]
IsValidCoord(c) == c \in ValidCoords
Origin == Coord(Deg(0), Deg(0))

\* ---- calculateAspects
\* longitudes of the sun: at 0, off the grid, outside [0, 360), not a
\* number, infinite, absent, and read from the `longitude` fallback
AspectSunPositions ==
  {AtLongitude(Deg(0)), AtLongitude(DegFrac(350, 2500)), AtLongitude(Deg(400)),
   AtLongitude(NaN), AtLongitude(PosInf), AbsentPos,
   Position(Undefined, Deg(20), TRUE, Deg(10), Deg(100)),
   Position(Undefined, Undefined, TRUE, Deg(10), Deg(100))}
\* longitudes of mars: around every aspect angle and every orb from the sun
AspectMarsLongitudes ==
  {Deg(0), DegFrac(0, 1000), DegFrac(0, 9999), Deg(1), Deg(8), DegFrac(8, 1),
   Deg(15), Deg(35), Deg(45), Deg(52), Deg(60), DegFrac(60, 1000), Deg(75), Deg(82),
   Deg(90), DegFrac(98, 1), Deg(105), Deg(120), Deg(135), Deg(165), Deg(172),
   Deg(180), Deg(188), Deg(270), DegFrac(359, 9000), Deg(-90), NegInf}
AspectMoonPositions == {AtLongitude(Deg(180)), AbsentPos}
AspectTable(s, m, mo) ==
  [BaseTable EXCEPT !["sun"] = s, !["mars"] = AtLongitude(m), !["moon"] = mo]
\* orbs within the bounds enforced upstream (0.1 to 15), and none
Orbs ==
  {NoOrb, Orb(DegFrac(0, 1000)), Orb(Deg(1)), Orb(Deg(8)), Orb(DegFrac(14, 9999)),
   Orb(Deg(15))}
AspectBodies == {"sun", "mars", "moon"}
AspectBodyLists == {Omitted} \cup {Given(l) : l \in SeqsUpTo(AspectBodies, MaxBodies)}
\* every longitude is tried on the pair sun, mars in both orders; every
\* list of bodies is tried on a few skies
PairLists == {Given(<<"sun", "mars">>), Given(<<"mars", "sun">>)}
FewSunPositions ==
  {AtLongitude(Deg(0)), AtLongitude(NaN), AtLongitude(PosInf), AbsentPos}
FewMarsLongitudes == {Deg(90), Deg(75), Deg(-90)}

CalculateAspects ==
  /\ op = "none"
  /\ \E c \in OpCoords, o \in Orbs, bl \in AspectBodyLists, throws \in BOOLEAN :
    \E s \in AspectSunPositions, m \in AspectMarsLongitudes,
       mo \in AspectMoonPositions :
      LET a2 == WithCoords(c, [NoArgs EXCEPT !.datetime = At(Midday), !.orb = o,
                                             !.bodies = bl, !.now = Clock])
          sk == ConstSky({RequestMinute(a2.datetime)},
                         IF throws THEN Throws ELSE Answer(AspectTable(s, m, mo)))
          few == s \in FewSunPositions /\ m \in FewMarsLongitudes
          first == s = AtLongitude(Deg(0)) /\ m = Deg(90)
                   /\ mo = AtLongitude(Deg(180)) /\ o = NoOrb
      IN /\ IF throws \/ ~IsValidCoord(c) THEN first /\ bl \in PairLists
            ELSE /\ c = Origin
                 /\ \/ bl \in PairLists /\ mo = AtLongitude(Deg(180))
                    \/ few /\ o \in {NoOrb, Orb(Deg(15))}
         /\ op' = "calculateAspects"
         /\ args' = a2
         /\ sky' = sk
         /\ out' = calculateAspects(a2, sk)

\* ---- getMoonPhase
\* the moon MoonSteps equal steps around the circle from the sun, and just
\* before, at and after the first and last phase boundaries
MoonOffsets ==
  {(k * 360 * Scale) \div MoonSteps : k \in 0 .. MoonSteps - 1}
  \cup {45 * HalfDeg - 1, 45 * HalfDeg + 1, 675 * HalfDeg - 1, 675 * HalfDeg,
        360 * Scale - 1, 180 * Scale + 49}
PhaseSunPositions ==
  {AtLongitude(Deg(280)), AtLongitude(Deg(0)), AtLongitude(DegFrac(10, 5000)),
   AtLongitude(Deg(-30)), AtLongitude(NaN), AtLongitude(Undefined),
   AtLongitude(PosInf), AbsentPos}
PhaseMoonPositions(s) ==
  {AtLongitude(Num((s.apparentLongitude.v + d) % (360 * Scale))) : d \in MoonOffsets}
  \cup {AtLongitude(Deg(0)), AtLongitude(Deg(-400)), AtLongitude(NaN),
        AtLongitude(Undefined), AbsentPos}

GetMoonPhase ==
  /\ op = "none"
  /\ \E dt \in DateTimes, s \in PhaseSunPositions :
    \E m \in PhaseMoonPositions(s), throws \in BOOLEAN :
      LET a2 == [NoArgs EXCEPT !.datetime = dt, !.now = Clock]
          tab == [BaseTable EXCEPT !["sun"] = s, !["moon"] = m]
          sk == ConstSky({RequestMinute(dt)},
                         IF throws THEN Throws ELSE Answer(tab))
      IN /\ throws => (s = AbsentPos /\ m = AbsentPos)
         /\ op' = "getMoonPhase"
         /\ args' = a2
         /\ sky' = sk
         /\ out' = getMoonPhase(a2, sk)

\* ---- getDailyEvents
\* the minutes the scan of the day of instant t asks the provider for
ScanMinutes(t) == {ProviderMinute(TestDate(t, k)) : k \in 0 .. NumSamples - 1}
SampleIndex(t, m) == (m - ProviderMinute(TestDate(t, 0))) \div (60 \div SamplesPerHour)

\* altitude profiles of a day, by sample index k: a body that rises and sets
\* once (through altitude exactly 0), one that rises and sets between
\* samples, one that sets and rises, one always below and one always above
\* the horizon, one that only touches the horizon (at 12:00) and one that
\* stays at its highest altitude from 10:00 to 14:00, in units
Wave(k) == 30 * Scale - (IF k < 48 THEN 48 - k ELSE k - 48) * ((5 * Scale) \div 4)
\* a body that crosses the horizon every two hours, eleven times in the
\* day, and is highest at 11:00
Ripple(k) ==
  IF (k \div 8) % 2 = 0 THEN -5 * Scale
  ELSE 5 * Scale + 100 - (IF k < 44 THEN 44 - k ELSE k - 44)
\* a body that rises between 04:45 and 05:00, is exactly on the horizon at
\* 10:00, below it afterwards, and rises again between 14:45 and 15:00
Dip(k) ==
  IF k < 20 THEN -5 * Scale
  ELSE IF k < 40 THEN 5 * Scale
  ELSE IF k = 40 THEN 0
  ELSE IF k < 60 THEN -5 * Scale
  ELSE 5 * Scale
Profiles ==
  {[k \in 0 .. NumSamples - 1 |-> Wave(k)],
   [k \in 0 .. NumSamples - 1 |-> Wave(k) + Scale \div 2],
   [k \in 0 .. NumSamples - 1 |-> Ripple(k)],
   [k \in 0 .. NumSamples - 1 |-> Scale - Wave(k)],
   [k \in 0 .. NumSamples - 1 |-> -10 * Scale],
   [k \in 0 .. NumSamples - 1 |-> 20 * Scale + k],
   [k \in 0 .. NumSamples - 1 |-> Wave(k) - 30 * Scale],
   [k \in 0 .. NumSamples - 1 |-> IF Wave(k) > 20 * Scale THEN 20 * Scale ELSE Wave(k)],
   [k \in 0 .. NumSamples - 1 |-> Dip(k)]}
\* what the provider does to a sample: answers, has no altaz data, has no
\* position, returns a NaN altitude, returns no azimuth, or throws; or it
\* has no altaz data at any sample of the day
Gaps == {"none", "noaltaz", "absent", "nan", "noazimuth", "throws", "never"}
GapAt == {10, 30, 48}
SampleAnswer(body, alt, k, gap, at) ==
  IF gap = "never"
    THEN Answer([BaseTable EXCEPT
                   ![body] = Position(Deg(100), Undefined, FALSE, Undefined, Undefined)])
  ELSE IF k # at \/ gap = "none"
    THEN Answer([BaseTable EXCEPT
                   ![body] = Position(Deg(100), Undefined, TRUE, Num(alt), Deg(90 + k))])
  ELSE IF gap = "throws" THEN Throws
  ELSE IF gap = "absent" THEN Answer([BaseTable EXCEPT ![body] = AbsentPos])
  ELSE IF gap = "noaltaz"
    THEN Answer([BaseTable EXCEPT
                   ![body] = Position(Deg(100), Undefined, FALSE, Undefined, Undefined)])
  ELSE IF gap = "noazimuth"
    THEN Answer([BaseTable EXCEPT
                   ![body] = Position(Deg(100), Undefined, TRUE, Num(alt), Undefined)])
  ELSE Answer([BaseTable EXCEPT
                 ![body] = Position(Deg(100), Undefined, TRUE, NaN, Deg(90 + k))])

GetDailyEvents ==
  /\ op = "none"
  /\ \E c \in OpCoords, dt \in DateTimes \cup {At(LateNextDay)}, b \in {"sun", "mars"} :
    \E p \in Profiles, gap \in Gaps, at \in GapAt :
      LET a2 == WithCoords(c, [NoArgs EXCEPT !.datetime = dt, !.body = b,
                                             !.now = Clock])
          t == parseDateTime(dt, Clock)
          sk == [m \in ScanMinutes(t) |->
                   SampleAnswer(b, p[SampleIndex(t, m)], SampleIndex(t, m), gap, at)]
      IN /\ c = Origin \/ (~IsValidCoord(c) /\ gap \in {"none", "throws"}
                           /\ at = 10 /\ b = "sun")
         /\ gap \in {"none", "never"} => at = 10
         /\ op' = "getDailyEvents"
         /\ args' = a2
         /\ sky' = sk
         /\ out' = getDailyEvents(a2, sk)

\* ---- getZodiacSign
ZodiacPositions ==
  {AtLongitude(Deg(0)), AtLongitude(Deg(30)), AtLongitude(DegFrac(29, 9999)),
   AtLongitude(Deg(330)), AtLongitude(DegFrac(359, 9000)), AtLongitude(Deg(360)),
   AtLongitude(Deg(-30)), AtLongitude(DegFrac(-0, -1)), AtLongitude(DegFrac(725, 5004)),
   AtLongitude(Deg(-720)), AtLongitude(NaN), AtLongitude(Undefined),
   AtLongitude(PosInf), AbsentPos}
  \cup {AtLongitude(DegFrac(k * 30, 15 * Scale)) : k \in 0 .. 11}

GetZodiacSign ==
  /\ op = "none"
  /\ \E c \in OpCoords, dt \in DateTimes, b \in {"sun", "earth"}, throws \in BOOLEAN :
    \E p \in ZodiacPositions :
      LET a2 == WithCoords(c, [NoArgs EXCEPT !.datetime = dt, !.body = b,
                                             !.now = Clock])
          sk == ConstSky({RequestMinute(dt)},
                         IF throws THEN Throws
                         ELSE Answer([BaseTable EXCEPT !["sun"] = p]))
      IN /\ (throws \/ ~IsValidCoord(c) \/ b = "earth") => p = AbsentPos
         /\ op' = "getZodiacSign"
         /\ args' = a2
         /\ sky' = sk
         /\ out' = getZodiacSign(a2, sk)

\* ---- comparePositions
CompareLongitudes ==
  {Deg(10), Deg(350), Deg(190), DegFrac(10, 4), Deg(0), DegFrac(0, 625),
   Deg(370), NaN}
CompareSunPositions == {AtLongitude(l) : l \in CompareLongitudes} \cup {AbsentPos}
CompareDates == {Midday, Midday + 30000, LateNextDay}
\* who throws: nobody, the call for date1, the call for date2
CompareFailures == {"none", "first", "second"}

ComparePositions ==
  /\ op = "none"
  /\ \E c \in OpCoords, d1 \in CompareDates, d2 \in CompareDates, bl \in BodyLists :
    \E p1 \in CompareSunPositions, p2 \in CompareSunPositions, f \in CompareFailures :
      LET a2 == WithCoords(c, [NoArgs EXCEPT !.date1 = d1, !.date2 = d2,
                                             !.bodies = bl, !.now = Clock])
          m1 == ProviderMinute(d1)
          m2 == ProviderMinute(d2)
          sk == [m \in {m1, m2} |->
                   IF (f = "first" /\ m = m1) \/ (f = "second" /\ m = m2) THEN Throws
                   ELSE Answer([BaseTable EXCEPT
                                  !["sun"] = IF m = m1 THEN p1 ELSE p2,
                                  !["mars"] = AtLongitude(IF m = m1 THEN Deg(80)
                                                          ELSE Deg(260))])]
      IN /\ m1 = m2 => (p1 = p2 /\ f # "second")
         /\ c = Origin \/ (~IsValidCoord(c) /\ p1 = AbsentPos /\ p2 = AbsentPos
                           /\ bl = Omitted /\ d1 = Midday)
         /\ \/ bl = Given(<<"sun">>)
            \/ /\ p1 \in {AtLongitude(Deg(10)), AbsentPos}
               /\ p2 \in {AtLongitude(Deg(350)), AbsentPos}
               /\ d1 = Midday
               /\ d2 = LateNextDay
         /\ f # "none" => (p1 = AbsentPos /\ p2 = AbsentPos)
         /\ op' = "comparePositions"
         /\ args' = a2
         /\ sky' = sk
         /\ out' = comparePositions(a2, sk)

\* ================================================= the two tool surfaces
\* the tools of the REST switch, which are also the tools the MCP server
\* registers
Tools ==
  <<"get_ephemeris_data", "get_single_body_position", "get_current_sky",
    "get_planetary_positions", "get_luminaries", "calculate_aspects",
    "get_moon_phase", "get_daily_events", "get_zodiac_sign",
    "compare_positions", "get_earth_position">>

\* A request is a tool name and the decoded arguments, a record shaped like
\* NoArgs: a number that was not sent is Undefined, a body that was not sent
\* is "", a date string that is not an ISO 8601 datetime has instant -1.
NotIso == -1
Malformed == [given |-> TRUE, t |-> NotIso]

RECURSIVE Join(_, _)
Join(strings, sep) ==
  IF strings = <<>> THEN ""
  ELSE IF Len(strings) = 1 THEN strings[1]
  ELSE strings[1] \o sep \o Join(Tail(strings), sep)

\* ---- lib/schema.ts: each schema gives the issues of a value, as
\* "path: message" strings in the order zod reports them
latitudeSchema(x) ==
  IF x.t = "undefined" THEN <<"latitude: Required">>
  ELSE IF x.t = "nan" THEN <<"latitude: Expected number, received nan">>
  ELSE IF JsLt(x, Deg(-90)) THEN <<"latitude: Latitude must be >= -90 degrees">>
  ELSE IF JsGt(x, Deg(90)) THEN <<"latitude: Latitude must be <= 90 degrees">>
  ELSE <<>>
longitudeSchema(x) ==
  IF x.t = "undefined" THEN <<"longitude: Required">>
  ELSE IF x.t = "nan" THEN <<"longitude: Expected number, received nan">>
  ELSE IF JsLt(x, Deg(-180)) THEN <<"longitude: Longitude must be >= -180 degrees">>
  ELSE IF JsGt(x, Deg(180)) THEN <<"longitude: Longitude must be <= 180 degrees">>
  ELSE <<>>
\* z.string().datetime(...).optional()
datetimeSchema(dt) ==
  IF dt.given /\ dt.t = NotIso
    THEN <<"datetime: Must be a valid ISO 8601 datetime string">>
  ELSE <<>>
\* z.string().datetime(), under the key `path`
RequiredDatetime(path, dt) ==
  IF ~dt.given THEN <<path \o ": Required">>
  ELSE IF dt.t = NotIso THEN <<path \o ": Invalid datetime">>
  ELSE <<>>
celestialBodySchema(b) ==
  IF b \in BodySet THEN <<>>
  ELSE <<"body: Must be one of: " \o Join(ALL_BODIES, ", ")>>
bodiesArraySchema(bl) ==
  LET Index == <<"0", "1", "2", "3", "4", "5", "6", "7", "8", "9", "10",
                 "11", "12", "13">>
      BadAt(i) == bl.list[i] \notin BodySet
      bad == SelectSeq([i \in 1 .. Len(bl.list) |-> i], BadAt)
  IN IF ~bl.given THEN <<>>
     ELSE [k \in 1 .. Len(bad) |->
             "bodies." \o Index[bad[k]] \o ": Each body must be one of: "
               \o Join(ALL_BODIES, ", ")]
          \o (IF Len(bl.list) < 1
                THEN <<"bodies: Must specify at least one celestial body">>
              ELSE <<>>)
aspectOrbSchema(o) ==
  IF ~o.given THEN <<>>
  ELSE IF o.v.t \notin {"number", "inf", "ninf"}
    THEN <<"orb: Expected number, received nan">>
  ELSE IF JsLt(o.v, DegFrac(0, 1000)) THEN <<"orb: Orb must be >= 0.1 degrees">>
  ELSE IF JsGt(o.v, Deg(15)) THEN <<"orb: Orb must be <= 15 degrees">>
  ELSE <<>>

\* the issues of the arguments a under the object schema of a tool, key by
\* key in the order of the schema; daily is what the schema of
\* get_daily_events says of datetime (the surfaces differ there)
ArgsIssues(tool, a, daily) ==
  LET lat == latitudeSchema(a.latitude)
      lon == longitudeSchema(a.longitude)
      dt == datetimeSchema(a.datetime)
  IN CASE tool = "get_ephemeris_data"
            -> lat \o lon \o dt \o bodiesArraySchema(a.bodies)
       [] tool = "get_single_body_position"
            -> celestialBodySchema(a.body) \o lat \o lon \o dt
       [] tool = "get_current_sky" -> lat \o lon
       [] tool \in {"get_planetary_positions", "get_luminaries"}
            -> lat \o lon \o dt
       [] tool = "calculate_aspects"
            -> lat \o lon \o dt \o aspectOrbSchema(a.orb)
                 \o bodiesArraySchema(a.bodies)
       [] tool \in {"get_moon_phase", "get_earth_position"} -> dt
       [] tool = "get_daily_events"
            -> lat \o lon \o daily \o celestialBodySchema(a.body)
       [] tool = "get_zodiac_sign"
            -> lat \o lon \o dt \o celestialBodySchema(a.body)
       [] tool = "compare_positions"
            -> lat \o lon \o RequiredDatetime("date1", At(a.date1))
                 \o RequiredDatetime("date2", At(a.date2))
                 \o bodiesArraySchema(a.bodies)

\* what parse returns: the keys of the schema only, orb defaulted to 8
ParsedArgs(tool, a) ==
  LET coords == tool \notin {"get_moon_phase", "get_earth_position"}
      timed == tool \notin {"get_current_sky", "compare_positions"}
      listed == tool \in {"get_ephemeris_data", "calculate_aspects",
                          "compare_positions"}
      named == tool \in {"get_single_body_position", "get_daily_events",
                         "get_zodiac_sign"}
  IN [NoArgs EXCEPT
        !.latitude = IF coords THEN a.latitude ELSE @,
        !.longitude = IF coords THEN a.longitude ELSE @,
        !.datetime = IF timed THEN a.datetime ELSE @,
        !.bodies = IF listed THEN a.bodies ELSE @,
        !.body = IF named THEN a.body ELSE @,
        !.orb = IF tool # "calculate_aspects" THEN @
                ELSE IF a.orb.given THEN a.orb ELSE Orb(Deg(8)),
        !.date1 = IF tool = "compare_positions" THEN a.date1 ELSE @,
        !.date2 = IF tool = "compare_positions" THEN a.date2 ELSE @,
        !.now = a.now]

\* ---- lib/ephemeris-core.ts: the functions that only choose the bodies
EphemerisOf(a, lat, lon, datetime, bodies, sk) ==
  LET r == calculateEphemeris(
             [latitude |-> lat, longitude |-> lon, datetime |-> datetime,
              bodies |-> Given(bodies), now |-> a.now], sk)
  IN [ok |-> r.ok, error |-> r.error, calls |-> r.calls,
      value |-> [keys |-> r.keys, val |-> r.val]]
getEphemerisData(a, sk) ==
  LET r == calculateEphemeris(a, sk)
  IN [ok |-> r.ok, error |-> r.error, calls |-> r.calls,
      value |-> [keys |-> r.keys, val |-> r.val]]
getSingleBodyPosition(a, sk) ==
  EphemerisOf(a, a.latitude, a.longitude, a.datetime, <<a.body>>, sk)
getCurrentSky(a, sk) ==
  EphemerisOf(a, a.latitude, a.longitude, NoTime, ALL_BODIES, sk)
getPlanetaryPositions(a, sk) ==
  EphemerisOf(a, a.latitude, a.longitude, a.datetime, PLANETARY_BODIES, sk)
getLuminaries(a, sk) ==
  EphemerisOf(a, a.latitude, a.longitude, a.datetime, LUMINARIES, sk)
getEarthPosition(a, sk) ==
  EphemerisOf(a, Deg(0), Deg(0), a.datetime, <<"earth">>, sk)

\* the function each case of the switch calls with the parsed arguments
ToolFunction(tool, a, sk) ==
  CASE tool = "get_ephemeris_data" -> getEphemerisData(a, sk)
    [] tool = "get_single_body_position" -> getSingleBodyPosition(a, sk)
    [] tool = "get_current_sky" -> getCurrentSky(a, sk)
    [] tool = "get_planetary_positions" -> getPlanetaryPositions(a, sk)
    [] tool = "get_luminaries" -> getLuminaries(a, sk)
    [] tool = "calculate_aspects" -> calculateAspects(a, sk)
    [] tool = "get_moon_phase" -> getMoonPhase(a, sk)
    [] tool = "get_daily_events" -> getDailyEvents(a, sk)
    [] tool = "get_zodiac_sign" -> getZodiacSign(a, sk)
    [] tool = "compare_positions" -> comparePositions(a, sk)
    [] tool = "get_earth_position" -> getEarthPosition(a, sk)

\* ---- netlify/edge-functions/ephemeris.ts
Response(status, text, calls, value) ==
  [ok |-> status = 200, error |-> text, calls |-> calls, value |-> value,
   status |-> status]

\* what is returned once the tool function has returned or thrown
Computed(result) ==
  IF ~result.ok THEN Response(500, result.error, result.calls, <<>>)
  ELSE Response(200, "", result.calls, result.value)

\* mutant: a ZodError is not told apart and reaches the outer catch
handler_NoValidationCatch(tool, a, sk) ==
  IF tool \notin Range(Tools) THEN Response(404, "Tool not found", <<>>, <<>>)
  ELSE IF ArgsIssues(tool, a, datetimeSchema(a.datetime)) # <<>>
    THEN Response(500, Join(ArgsIssues(tool, a, datetimeSchema(a.datetime)), ", "),
                  <<>>, <<>>)
  ELSE Computed(ToolFunction(tool, ParsedArgs(tool, a), sk))

\* handler(_, ctx) for the tool ctx.params.tool and the arguments a decoded
\* from the query string
handler(tool, a, sk) ==
  IF tool \notin Range(Tools) THEN Response(404, "Tool not found", <<>>, <<>>)
  ELSE IF ArgsIssues(tool, a, datetimeSchema(a.datetime)) # <<>>
    THEN Response(400, "Validation Error: "
                         \o Join(ArgsIssues(tool, a, datetimeSchema(a.datetime)), ", "),
                  <<>>, <<>>)
  ELSE Computed(ToolFunction(tool, ParsedArgs(tool, a), sk))

\* ---- netlify/edge-functions/mcp-server.ts
\* the callback of get_zodiac_sign once calculateEphemeris has returned
\* result: a text block holding {error} where the library function throws
McpZodiacSign(result, a, sk) ==
  IF result.ok /\ ~result.val[a.body].present
    THEN [ok |-> TRUE, error |-> "", calls |-> result.calls,
          value |-> [error |-> "No data available for " \o a.body]]
  ELSE getZodiacSign(a, sk)

\* the callback registered for a tool.  The callbacks of calculate_aspects,
\* get_moon_phase, get_daily_events and compare_positions repeat the
\* statements of the library functions and the others call
\* calculateEphemeris with the same bodies
McpCallback(tool, a, sk) ==
  IF tool = "get_zodiac_sign"
    THEN McpZodiacSign(
           calculateEphemeris(
             [latitude |-> a.latitude, longitude |-> a.longitude,
              datetime |-> a.datetime, bodies |-> Given(<<a.body>>),
              now |-> a.now], sk), a, sk)
  ELSE ToolFunction(tool, a, sk)

McpOutcome(rejected, isError, text, calls, value) ==
  [ok |-> ~rejected /\ ~isError, error |-> text, calls |-> calls,
   value |-> value, rejected |-> rejected, isError |-> isError]
\* an exception of the callback becomes a result flagged isError whose text
\* is the message
McpResult(result) ==
  IF ~result.ok THEN McpOutcome(FALSE, TRUE, result.error, result.calls, <<>>)
  ELSE McpOutcome(FALSE, FALSE, "", result.calls, result.value)

\* a tools/call request to the server: the arguments are checked against
\* the shape the tool was registered with, then the callback is called
McpToolCall(tool, a, sk) ==
  IF tool \notin Range(Tools)
    THEN McpOutcome(TRUE, FALSE, "Tool " \o tool \o " not found", <<>>, <<>>)
  ELSE IF ArgsIssues(tool, a, RequiredDatetime("datetime", a.datetime)) # <<>>
    THEN McpOutcome(TRUE, FALSE,
                    Join(ArgsIssues(tool, a, RequiredDatetime("datetime", a.datetime)),
                         ", "), <<>>, <<>>)
  ELSE McpResult(McpCallback(tool, ParsedArgs(tool, a), sk))

\* ---- requests to the surfaces
\* a tool that does not exist beside the eleven that do
ToolNames == Range(Tools) \cup {"get_horoscope"}
\* a body that does not exist and a body that was not sent
SurfaceBodies == {"sun", "earth", "vulcan", ""}
SurfaceBodyLists ==
  {Omitted, Given(<<>>), Given(<<"sun", "mars">>), Given(<<"sun", "vulcan">>)}
SurfaceLatitudes == {Deg(0), Deg(91), Undefined}
SurfaceLongitudes == {Deg(0), Deg(-181)}
SurfaceDateTimes == {NoTime, At(Midday), Malformed}
SurfaceOrbs == {NoOrb, Orb(Deg(1)), Orb(Deg(16)), Orb(DegFrac(0, 500))}
\* the arguments that vary with the tool; the keys a tool does not read
\* vary as well where its schema is to drop them
SurfaceArgs ==
  {[NoArgs EXCEPT !.latitude = lat, !.longitude = lon, !.datetime = dt,
                  !.bodies = bl, !.orb = o, !.body = b, !.date1 = d1,
                  !.date2 = LateNextDay, !.now = Clock] :
     lat \in SurfaceLatitudes, lon \in SurfaceLongitudes,
     dt \in SurfaceDateTimes, bl \in SurfaceBodyLists, o \in SurfaceOrbs,
     b \in SurfaceBodies, d1 \in {Midday, NotIso}}
Varies(tool, a) ==
  /\ a.bodies # Omitted
       => tool \in {"get_ephemeris_data", "calculate_aspects",
                    "compare_positions", "get_current_sky"}
  /\ a.orb # NoOrb => tool \in {"calculate_aspects", "get_luminaries"}
  /\ a.body # "sun"
       => tool \in {"get_single_body_position", "get_daily_events",
                    "get_zodiac_sign", "get_earth_position"}
  /\ a.date1 # Midday => tool = "compare_positions"
  /\ tool = "calculate_aspects" => a.datetime # NoTime
\* every minute a tool may ask the provider for
SurfaceMinutes ==
  ScanMinutes(Clock) \cup ScanMinutes(Midday)
    \cup {ProviderMinute(t) : t \in {Clock, Midday, LateNextDay}}
SurfaceSkies == {ConstSky(SurfaceMinutes, Answer(BaseTable)),
                 ConstSky(SurfaceMinutes, Throws)}

\* a GET /ephemeris/:tool request
RestRequest ==
  /\ op = "none"
  /\ \E tool \in ToolNames, a \in SurfaceArgs, sk \in SurfaceSkies :
    /\ Varies(tool, a)
    /\ op' = "rest"
    /\ args' = [tool |-> tool, a |-> a]
    /\ sky' = sk
    /\ out' = handler(tool, a, sk)

\* a tools/call request to the MCP server
McpRequest ==
  /\ op = "none"
  /\ \E tool \in ToolNames, a \in SurfaceArgs, sk \in SurfaceSkies :
    /\ Varies(tool, a)
    /\ op' = "mcp"
    /\ args' = [tool |-> tool, a |-> a]
    /\ sky' = sk
    /\ out' = McpToolCall(tool, a, sk)

Next ==
  \/ ValidateCoordinates
  \/ GetEphemerisData
  \/ CalculateAspects
  \/ GetMoonPhase
  \/ GetDailyEvents
  \/ GetZodiacSign
  \/ ComparePositions
  \/ RestRequest
  \/ McpRequest
  \/ Respond

Spec == Init /\ [][Next]_vars

\* ================================================================ claims
\* readings of a number used by the properties below
IsFinite(x) == x.t = "number"
\* x < d degrees and x > d degrees, for a number that is not NaN
BelowDeg(x, d) == x.t = "ninf" \/ (x.t = "number" /\ x.v < d * Scale)
AboveDeg(x, d) == x.t = "inf" \/ (x.t = "number" /\ x.v > d * Scale)
IsNotANumber(x) == x.t = "nan"
\* the reason the validator owes a pair of coordinates, "" when it is valid
OwedReason(lat, lon) ==
  IF IsNotANumber(lat) \/ IsNotANumber(lon) THEN "Invalid latitude or longitude"
  ELSE IF BelowDeg(lat, -90) \/ AboveDeg(lat, 90)
    THEN "Latitude must be between -90 and 90"
  ELSE IF BelowDeg(lon, -180) \/ AboveDeg(lon, 180)
    THEN "Longitude must be between -180 and 180"
  ELSE ""
\* the table the provider returned to a single-call request
TheTable == sky[CHOOSE m \in DOMAIN sky : TRUE].tab
ProviderThrew == \E m \in DOMAIN sky : sky[m].throws

\* C1: validateCoordinates applies its rules in order and the first failing
\* rule wins: NaN in either coordinate, then the latitude range (even when
\* the longitude is out of range too), then the longitude range; every pair
\* in range, the boundaries -90, 90, -180, 180 included, is valid without
\* an error.
C1_FirstFailingRuleWins ==
  op = "validateCoordinates" =>
    LET lat == args.latitude
        lon == args.longitude
        r == out.value
    IN /\ (IsNotANumber(lat) \/ IsNotANumber(lon)) =>
            r = [isValid |-> FALSE, error |-> "Invalid latitude or longitude"]
       /\ (~IsNotANumber(lat) /\ ~IsNotANumber(lon)
           /\ (BelowDeg(lat, -90) \/ AboveDeg(lat, 90))) =>
            r = [isValid |-> FALSE, error |-> "Latitude must be between -90 and 90"]
       /\ (~IsNotANumber(lat) /\ ~IsNotANumber(lon)
           /\ ~BelowDeg(lat, -90) /\ ~AboveDeg(lat, 90)
           /\ (BelowDeg(lon, -180) \/ AboveDeg(lon, 180))) =>
            r = [isValid |-> FALSE, error |-> "Longitude must be between -180 and 180"]
       /\ (IsFinite(lat) /\ IsFinite(lon)
           /\ lat.v >= -90 * Scale /\ lat.v <= 90 * Scale
           /\ lon.v >= -180 * Scale /\ lon.v <= 180 * Scale) =>
            r = [isValid |-> TRUE, error |-> "undefined"]

\* C1 witness: latitude and longitude both out of range, latitude reported
C1_Witness ==
  /\ op = "validateCoordinates"
  /\ args.latitude = Deg(100)
  /\ args.longitude = Deg(181)
  /\ out.value.error = "Latitude must be between -90 and 90"

\* the bodies a getEphemerisData request asks for
RequestedBodies ==
  IF args.bodies.given /\ args.bodies.list # <<>>
    THEN {args.bodies.list[i] : i \in 1 .. Len(args.bodies.list)}
    ELSE BodySet

\* C2: a successful calculateEphemeris has a key for every requested body
\* and for no other; a requested body the provider has no position for is
\* stored under its key as undefined, not left out.
C2_KeyPerRequestedBody ==
  (op = "getEphemerisData" /\ out.ok) =>
    /\ Range(out.value.keys) = RequestedBodies
    /\ \A b \in RequestedBodies :
         IF TheTable[b].present
           THEN out.value.val[b] = TheTable[b]
           ELSE b \in Range(out.value.keys) /\ out.value.val[b] = AbsentPos

\* C2 witness: earth requested and without a position, the sun not requested
C2_Witness ==
  /\ op = "getEphemerisData"
  /\ out.ok
  /\ args.bodies = Given(<<"earth", "moon">>)
  /\ ~TheTable["earth"].present
  /\ "earth" \in Range(out.value.keys)
  /\ "sun" \notin Range(out.value.keys)

\* C3: with bodies omitted or empty the aggregate answers exactly as for the
\* explicit list of all 13 bodies; with a non-empty list only the listed
\* bodies are looked up.
C3_DefaultsToAllBodies ==
  (op = "getEphemerisData" /\ out.ok) =>
    LET all == calculateEphemeris([args EXCEPT !.bodies = Given(ALL_BODIES)], sky)
    IN IF ~args.bodies.given \/ args.bodies.list = <<>>
         THEN /\ Len(ALL_BODIES) = 13
              /\ out.value.keys = ALL_BODIES
              /\ out.value.keys = all.keys
              /\ out.value.val = all.val
         ELSE /\ Range(out.value.keys) = Range(args.bodies.list)
              /\ \A b \in BodySet \ Range(args.bodies.list) :
                   out.value.val[b] = AbsentPos

\* C3 witness: an empty list answered with all 13 bodies
C3_Witness ==
  /\ op = "getEphemerisData"
  /\ out.ok
  /\ args.bodies = Given(<<>>)
  /\ Len(out.value.keys) = 13

\* the operations that take the observer's coordinates from the request
CoordinateOps ==
  {"getEphemerisData", "calculateAspects", "getDailyEvents", "getZodiacSign",
   "comparePositions"}

\* C4: a request with an invalid latitude or longitude is rejected with the
\* validator's reason before the provider is invoked, in every operation;
\* no provider call is ever made with invalid coordinates.
C4_ValidationBeforeProvider ==
  /\ \A i \in DOMAIN out.calls :
       OwedReason(out.calls[i].latitude, out.calls[i].longitude) = ""
  /\ (op \in CoordinateOps /\ OwedReason(args.latitude, args.longitude) # "") =>
       /\ ~out.ok
       /\ out.error = OwedReason(args.latitude, args.longitude)
       /\ out.calls = <<>>
  /\ op = "getMoonPhase" =>
       \A i \in DOMAIN out.calls :
         out.calls[i].latitude = Deg(0) /\ out.calls[i].longitude = Deg(0)

\* C4 witness: a daily scan with latitude 91, rejected without any sample
C4_Witness ==
  /\ op = "getDailyEvents"
  /\ args.latitude = Deg(91)
  /\ ~out.ok
  /\ out.error = "Latitude must be between -90 and 90"
  /\ out.calls = <<>>

\* ---- aspects
\* the longitude of body b as the provider returned it
LongitudeOf(b) ==
  IF TheTable[b].apparentLongitude.t # "undefined"
    THEN TheTable[b].apparentLongitude ELSE TheTable[b].longitude
\* the bodies whose longitude the analyzer keeps: a position with a
\* longitude that is a number and not NaN
KeptBodies ==
  {b \in RequestedBodies :
     TheTable[b].present /\ LongitudeOf(b).t \in {"number", "inf", "ninf"}}
\* the bodies with a finite longitude
FiniteBodies == {b \in RequestedBodies : TheTable[b].present /\ IsFinite(LongitudeOf(b))}
Dist(x, y) == IF x < y THEN y - x ELSE x - y
\* the separation of two finite longitudes, in units
Separation(a, b) ==
  LET d == Dist(LongitudeOf(a).v, LongitudeOf(b).v)
  IN IF d > 180 * Scale THEN 360 * Scale - d ELSE d
AspectAngles ==
  {<<"conjunction", 0>>, <<"sextile", 60>>, <<"square", 90>>, <<"trine", 120>>,
   <<"opposition", 180>>}
\* the orb of the request, 8 degrees when none is given
RequestOrb == IF args.orb.given THEN args.orb.v.v ELSE 8 * Scale
\* the records of the result about the pair a, b and the aspect name
RecordsOf(a, b, name) ==
  {i \in DOMAIN out.value.aspects :
     /\ {out.value.aspects[i].body1, out.value.aspects[i].body2} = {a, b}
     /\ out.value.aspects[i].aspect = name}

\* C5: a record is emitted for a pair of usable bodies and a table aspect
\* exactly when |sep - angle| <= orb; it carries orb = |sep - angle| and
\* exact = (orb < 1).  Longitudes sun 0, mars 90 with orb 8 give exactly one
\* record: square, angle 90, orb 0, exact.
C5_AspectIffWithinOrb ==
  (op = "calculateAspects" /\ out.ok) =>
    /\ \A a \in KeptBodies, b \in KeptBodies, asp \in AspectAngles :
         a # b =>
           Cardinality(RecordsOf(a, b, asp[1])) =
             IF /\ a \in FiniteBodies
                /\ b \in FiniteBodies
                /\ Dist(Separation(a, b), asp[2] * Scale) <= RequestOrb
               THEN 1 ELSE 0
    /\ \A i \in DOMAIN out.value.aspects :
         LET r == out.value.aspects[i]
         IN /\ r.body1 \in FiniteBodies
            /\ r.body2 \in FiniteBodies
            /\ r.body1 # r.body2
            /\ r.angle = Num(Separation(r.body1, r.body2))
            /\ \E asp \in AspectAngles :
                 /\ r.aspect = asp[1]
                 /\ r.orb = Num(Dist(r.angle.v, asp[2] * Scale))
            /\ r.exact = (r.orb.v < Scale)
    /\ (/\ args.bodies = Given(<<"sun", "mars">>)
        /\ LongitudeOf("sun") = Deg(0)
        /\ LongitudeOf("mars") = Deg(90)
        /\ RequestOrb = 8 * Scale) =>
         out.value.aspects =
           << [body1 |-> "sun", body2 |-> "mars", aspect |-> "square",
               angle |-> Deg(90), orb |-> Deg(0), exact |-> TRUE] >>

\* C5 witness: the scenario sun 0, mars 90, orb 8
C5_Witness ==
  /\ op = "calculateAspects"
  /\ out.ok
  /\ args.bodies = Given(<<"sun", "mars">>)
  /\ args.orb = Orb(Deg(8))
  /\ LongitudeOf("sun") = Deg(0)
  /\ LongitudeOf("mars") = Deg(90)
  /\ Len(out.value.aspects) = 1
  /\ out.value.aspects[1].aspect = "square"

Reverse(s) == [i \in 1 .. Len(s) |-> s[Len(s) + 1 - i]]
\* the records of a result with the two bodies of each as an unordered pair
Unordered(aspects) ==
  {[pair |-> {aspects[i].body1, aspects[i].body2}, aspect |-> aspects[i].aspect,
    angle |-> aspects[i].angle, orb |-> aspects[i].orb, exact |-> aspects[i].exact] :
     i \in DOMAIN aspects}

\* C6: aspect detection is symmetric: the request with the bodies in the
\* opposite insertion order gives the same aspects, angles, orbs and exact
\* flags for every pair.
C6_AspectsSymmetric ==
  (op = "calculateAspects" /\ args.bodies.given) =>
    LET swapped == calculateAspects(
                     [args EXCEPT !.bodies = Given(Reverse(args.bodies.list))], sky)
    IN /\ swapped.ok = out.ok
       /\ Unordered(swapped.value.aspects) = Unordered(out.value.aspects)

\* C6 witness: mars inserted before the sun, and an aspect between them
C6_Witness ==
  /\ op = "calculateAspects"
  /\ out.ok
  /\ args.bodies = Given(<<"mars", "sun">>)
  /\ Len(out.value.aspects) > 0
  /\ out.value.aspects[1].body1 = "mars"
  /\ out.value.aspects[1].body2 = "sun"

InsufficientData == "Need at least 2 bodies with valid positions to calculate aspects"

\* C7: bodies whose position is absent or whose longitude is not a finite
\* number are excluded; the request fails with the insufficient-data error
\* exactly when fewer than 2 bodies with a finite longitude remain, and no
\* excluded body appears in a record.
C7_FiniteLongitudesOnly ==
  (op = "calculateAspects" /\ OwedReason(args.latitude, args.longitude) = ""
   /\ ~ProviderThrew) =>
    /\ (~out.ok /\ out.error = InsufficientData) <=> Cardinality(FiniteBodies) < 2
    /\ out.ok <=> Cardinality(FiniteBodies) >= 2
    /\ \A i \in DOMAIN out.value.aspects :
         /\ out.value.aspects[i].body1 \in FiniteBodies
         /\ out.value.aspects[i].body2 \in FiniteBodies

\* ---- lunar phase
SunLongitude == TheTable["sun"].apparentLongitude
MoonLongitude == TheTable["moon"].apparentLongitude
PhaseNames ==
  <<"New Moon", "Waxing Crescent", "First Quarter", "Waxing Gibbous",
    "Full Moon", "Waning Gibbous", "Third Quarter", "Waning Crescent">>
\* the name the 8-way partition gives an elongation of e units in [0, 360):
\* the octant of e + 22.5 degrees
PartitionName(e) == PhaseNames[(((e + 45 * HalfDeg) \div (90 * HalfDeg)) % 8) + 1]

\* C8: the phase name is the one the fixed 8-way partition of [0, 360)
\* gives the elongation, New Moon on [337.5, 360) and [0, 22.5); equal sun
\* and moon longitudes give elongation 0 and New Moon.
C8_PhasePartition ==
  (op = "getMoonPhase" /\ out.ok) =>
    LET e == Elongation(SunLongitude, MoonLongitude)
    IN /\ (IsFinite(e) /\ e.v >= 0 /\ e.v < 360 * Scale) =>
            /\ out.value.phase = PartitionName(e.v)
            /\ Cardinality({i \in DOMAIN PhaseNames : PhaseNames[i] = out.value.phase}) = 1
       /\ (IsFinite(SunLongitude) /\ SunLongitude = MoonLongitude) =>
            /\ out.value.elongation = Deg(0)
            /\ out.value.phase = "New Moon"

\* C8 witness: sun and moon both at 280 degrees
C8_Witness ==
  /\ op = "getMoonPhase"
  /\ out.ok
  /\ SunLongitude = Deg(280)
  /\ MoonLongitude = Deg(280)
  /\ out.value.elongation = Deg(0)
  /\ out.value.phase = "New Moon"

\* a longitude that is there and is a number
IsNumeric(x) == x.t \in {"number", "inf", "ninf"}

\* C9: getMoonPhase fails with the missing-data error when the sun or moon
\* longitude is absent or not numeric, and returns a phase for every pair of
\* numeric longitudes, a longitude of exactly 0 included.
C9_FailsOnlyOnMissingData ==
  (op = "getMoonPhase" /\ ~ProviderThrew) =>
    IF IsNumeric(SunLongitude) /\ IsNumeric(MoonLongitude)
      THEN out.ok /\ out.value.phase \in Range(PhaseNames)
      ELSE ~out.ok /\ out.error = "Failed to calculate sun or moon position"

\* C10: for a phase angle in [0, 180] the illumination lies in [0, 100],
\* with 100 at phase angle 0, 50 at 90 and 0 at 180; getMoonPhase reports
\* illumination 0 at elongation 0 and 100 at elongation 180.
C10_IlluminationBounds ==
  (op = "getMoonPhase" /\ out.ok) =>
    LET e == Elongation(SunLongitude, MoonLongitude)
        angle == Dist(180 * Scale, e.v)
    IN (IsFinite(e) /\ angle <= 180 * Scale) =>
         /\ Illumination(Num(angle)).v >= 0
         /\ Illumination(Num(angle)).v <= 100 * Scale
         /\ out.value.illumination = Round2(Illumination(Num(angle)))
         /\ out.value.illumination.v >= 0
         /\ out.value.illumination.v <= 100 * Scale
         /\ angle = 0 => out.value.illumination = Deg(100)
         /\ angle = 90 * Scale => out.value.illumination = Deg(50)
         /\ angle = 180 * Scale => out.value.illumination = Deg(0)
         /\ e = Deg(0) => out.value.illumination = Deg(0)
         /\ e = Deg(180) => out.value.illumination = Deg(100)

\* C10 witness: the full moon, elongation 180 and illumination 100
C10_Witness ==
  /\ op = "getMoonPhase"
  /\ out.ok
  /\ Elongation(SunLongitude, MoonLongitude) = Deg(180)
  /\ out.value.phase_angle = Deg(0)
  /\ out.value.illumination = Deg(100)

\* ---------------------------------------------------------------- C11
\* the day scanned by the request and the altitude the provider gives at
\* its k-th sample
ScanDate == parseDateTime(args.datetime, args.now)
SampleOf(k) == sky[ProviderMinute(TestDate(ScanDate, k))]
SampleAltitude(k) == SampleOf(k).tab[args.body].altitude
\* every one of the 96 samples is answered with a finite altitude and a
\* numeric azimuth
FullDay ==
  \A k \in 0 .. NumSamples - 1 :
    /\ ~SampleOf(k).throws
    /\ SampleOf(k).tab[args.body].present
    /\ SampleOf(k).tab[args.body].hasAltaz
    /\ IsFinite(SampleAltitude(k))
    /\ IsFinite(SampleOf(k).tab[args.body].azimuth)
\* the side of the horizon at sample k, and at the last sample before k
\* that is not exactly on it (0 if there is none)
SideAt(k) ==
  IF SampleAltitude(k).v > 0 THEN 1 ELSE IF SampleAltitude(k).v < 0 THEN -1 ELSE 0
SideBefore(k) ==
  LET off == {j \in 0 .. k - 1 : SideAt(j) # 0}
  IN IF off = {} THEN 0
     ELSE SideAt(CHOOSE j \in off : \A i \in off : i <= j)
\* the samples at which the altitude has crossed zero upward, downward
UpwardCrossings ==
  {k \in 1 .. NumSamples - 1 : SideAt(k) = 1 /\ SideBefore(k) = -1}
DownwardCrossings ==
  {k \in 1 .. NumSamples - 1 : SideAt(k) = -1 /\ SideBefore(k) = 1}
EventsOf(kind) ==
  LET Is(e) == e.event = kind IN SelectSeq(out.value.events, Is)
SortedByTime(events) ==
  \A i \in 1 .. Len(events) - 1 : events[i].time <= events[i + 1].time

\* C11: when the 96 sampled altitudes cross zero exactly once upward and
\* exactly once downward, getDailyEvents returns exactly one rising, one
\* setting and (the body being above the horizon at some sample) one
\* culmination event, ordered by time.
C11_OneRiseOneSet ==
  (/\ op = "getDailyEvents"
   /\ out.ok
   /\ FullDay
   /\ Cardinality(UpwardCrossings) = 1
   /\ Cardinality(DownwardCrossings) = 1)
  => /\ Len(EventsOf("rising")) = 1
     /\ Len(EventsOf("setting")) = 1
     /\ Len(EventsOf("culmination")) = 1
     /\ SortedByTime(out.value.events)

\* ---------------------------------------------------------------- C12
\* every event pushed for the request: by the scan, then the culmination
Emitted == WithCulmination(Scan(args, ScanDate, sky, NumSamples))
AsSet(events) == {events[i] : i \in 1 .. Len(events)}

\* C12: the events returned by getDailyEvents are in non-decreasing order of
\* time, at most 6, and are the first 6 in time order of all the events
\* emitted, the culmination pushed after the scan included.
C12_SortedFirstSix ==
  (op = "getDailyEvents" /\ out.ok)
  => LET returned == out.value.events
     IN /\ SortedByTime(returned)
        /\ Len(returned) <= 6
        /\ Len(returned) = (IF Len(Emitted) < 6 THEN Len(Emitted) ELSE 6)
        /\ Cardinality(AsSet(returned)) = Len(returned)
        /\ AsSet(returned) \subseteq AsSet(Emitted)
        /\ \A e \in AsSet(Emitted) \ AsSet(returned) :
             \A r \in AsSet(returned) : r.time <= e.time

\* C12 witness: twelve events were emitted, the culmination last, and the
\* sort has placed it sixth, before the cut
C12_Witness ==
  /\ op = "getDailyEvents"
  /\ out.ok
  /\ Len(Emitted) = 12
  /\ Emitted[12].event = "culmination"
  /\ Len(out.value.events) = 6
  /\ out.value.events[6].event = "culmination"

\* ---------------------------------------------------------------- C13
\* the longitude the provider gives for the body of a single-body request
BodyLongitude == TheTable[args.body].apparentLongitude
\* the same sky with that longitude k whole turns further
Turned(k) ==
  [m \in DOMAIN sky |->
     [sky[m] EXCEPT !.tab[args.body].apparentLongitude = JsAdd(@, Deg(360 * k))]]

\* C13: for every longitude lon and every integer k, positive or negative,
\* the longitude, sign, degree and position that getZodiacSign computes for
\* lon + 360k are those it computes for lon.
C13_WholeTurns ==
  (op = "getZodiacSign" /\ out.ok /\ IsFinite(BodyLongitude))
  => \A k \in -MaxTurns .. MaxTurns :
       LET turned == getZodiacSign(args, Turned(k))
       IN /\ turned.ok
          /\ turned.value.longitude = out.value.longitude
          /\ turned.value.sign = out.value.sign
          /\ turned.value.degree = out.value.degree
          /\ turned.value.position = out.value.position

\* C13 witness: a negative longitude, -30, which shares Pisces degree 0 with
\* the longitude one turn further, 330
C13_Witness ==
  /\ op = "getZodiacSign"
  /\ out.ok
  /\ BodyLongitude = Deg(-30)
  /\ out.value.sign = "Pisces"
  /\ out.value.degree = Deg(0)
  /\ getZodiacSign(args, Turned(1)).value.longitude = Deg(330)
  /\ getZodiacSign(args, Turned(1)).value.sign = "Pisces"

\* ---------------------------------------------------------------- C14
\* the longitude brought into [0, 360), its sign index and its degree
\* within the sign, in units (% is the mathematical modulus here)
Normalized == BodyLongitude.v % (360 * Scale)
SignIndex == Normalized \div (30 * Scale)
DegreeInSign == Normalized % (30 * Scale)
\* x to the nearest thousandth of a degree, halves upward
Thousandth == Scale \div 1000
ToThousandths(x) == ((x + Thousandth \div 2) \div Thousandth) * Thousandth
ZodiacAnswered == op = "getZodiacSign" /\ out.ok /\ IsFinite(BodyLongitude)

Pos1(b) == sky[ProviderMinute(args.date1)].tab[b].apparentLongitude
Pos2(b) == sky[ProviderMinute(args.date2)].tab[b].apparentLongitude
InCircle(x) == IsFinite(x) /\ x.v >= 0 /\ x.v < 360 * Scale
\* the sun was compared, from a position and to a position within [0, 360)
SunCompared ==
  /\ op = "comparePositions"
  /\ out.ok
  /\ \E i \in 1 .. Len(out.value.comparison.keys) :
       out.value.comparison.keys[i] = "sun"
  /\ InCircle(Pos1("sun"))
  /\ InCircle(Pos2("sun"))
SunMovement == out.value.comparison.val["sun"].movement
\* the displacements congruent to pos2 - pos1 modulo 360 that a difference
\* of two positions within [0, 360) can need
Congruent(d) == {d - 360 * Scale, d, d + 360 * Scale}

\* C15 as stated: the movement is the value congruent to pos2 - pos1 modulo
\* 360 within (-180, 180] (to 3 decimals).
C15_MovementHalfOpenAbove ==
  SunCompared
  => \E m \in Congruent(Pos2("sun").v - Pos1("sun").v) :
       /\ m > -180 * Scale /\ m <= 180 * Scale
       /\ SunMovement = Num(ToThousandths(m))

\* C15 amended: the movement is the value congruent to pos2 - pos1 modulo
\* 360 within [-180, 180) (to 3 decimals): two positions exactly 180 apart
\* give -180, never +180.
C15_MovementHalfOpenBelow ==
  SunCompared
  => /\ \E m \in Congruent(Pos2("sun").v - Pos1("sun").v) :
          /\ m >= -180 * Scale /\ m < 180 * Scale
          /\ SunMovement = Num(ToThousandths(m))
     /\ (Pos2("sun").v - Pos1("sun").v \in {180 * Scale, -180 * Scale}
           => SunMovement = Deg(-180))

\* C15 witness: from 10 to 190, half a turn, the movement is -180
C15_Witness ==
  /\ SunCompared
  /\ Pos1("sun") = Deg(10)
  /\ Pos2("sun") = Deg(190)
  /\ SunMovement = Deg(-180)

\* ---------------------------------------------------------------- C16
\* the movement of the sun returned for the same request with date1 and
\* date2 exchanged
SunMovementBack ==
  comparePositions([args EXCEPT !.date1 = args.date2, !.date2 = args.date1],
                   sky).value.comparison.val["sun"].movement
HalfTurnApart ==
  Pos2("sun").v - Pos1("sun").v \in {180 * Scale, -180 * Scale}

\* C16: for every pair of positions that are not exactly 180 degrees apart,
\* the movement from pos1 to pos2 is the negation of the movement from pos2
\* to pos1.
C16_RoundTrip ==
  (SunCompared /\ ~HalfTurnApart) => SunMovement = JsNeg(SunMovementBack)

\* ---------------------------------------------------------------- C17
\* the displacement from pos1 to pos2 of the sun within [-180, 180)
SunDisplacement ==
  CHOOSE m \in Congruent(Pos2("sun").v - Pos1("sun").v) :
    m >= -180 * Scale /\ m < 180 * Scale
SunDirection == out.value.comparison.val["sun"].direction

\* C17: the direction is "forward" exactly when the movement is greater than
\* 0 and "retrograde" otherwise; a body that has not moved (date1 equal to
\* date2) is "retrograde"; from 10 to 350 the movement is -20 and the
\* direction "retrograde".
C17_ForwardIffPositive ==
  SunCompared
  => /\ SunDirection = (IF SunDisplacement > 0 THEN "forward" ELSE "retrograde")
     /\ (args.date1 = args.date2
           => SunMovement = Deg(0) /\ SunDirection = "retrograde")
     /\ (Pos1("sun") = Deg(10) /\ Pos2("sun") = Deg(350)
           => SunMovement = Deg(-20) /\ SunDirection = "retrograde")

\* C17 witness: date1 is date2, the sun has not moved and is "retrograde"
C17_Witness ==
  /\ SunCompared
  /\ args.date1 = args.date2
  /\ SunMovement = Deg(0)
  /\ SunDirection = "retrograde"

\* ---------------------------------------------------------------- C18
\* the bodies the comparison iterates over
ComparedBodies ==
  IF args.bodies.given THEN Range(args.bodies.list) ELSE Range(ALL_BODIES)
PresentAt(date, b) == sky[ProviderMinute(date)].tab[b].present
ComparisonKeys == out.value.comparison.keys

CoordinateTools == Range(Tools) \ {"get_moon_phase", "get_earth_position"}
DatetimeTools == Range(Tools) \ {"get_current_sky", "compare_positions"}
BodiesTools == {"get_ephemeris_data", "calculate_aspects", "compare_positions"}
BodyTools == {"get_single_body_position", "get_daily_events", "get_zodiac_sign"}
InRange(x, lo, hi) == IsFinite(x) /\ x.v >= lo /\ x.v <= hi
\* the arguments a are good for the tool: coordinates within the globe, date
\* strings well formed, bodies known and at least one if listed, orb within
\* 0.1 .. 15
GoodArguments(tool, a) ==
  /\ tool \in CoordinateTools
       => /\ InRange(a.latitude, -90 * Scale, 90 * Scale)
          /\ InRange(a.longitude, -180 * Scale, 180 * Scale)
  /\ tool \in DatetimeTools => a.datetime # Malformed
  /\ tool \in BodiesTools
       => (a.bodies.given
             => a.bodies.list # <<>> /\ Range(a.bodies.list) \subseteq BodySet)
  /\ tool \in BodyTools => a.body \in BodySet
  /\ tool = "calculate_aspects"
       => (a.orb.given => InRange(a.orb.v, Scale \div 10, 15 * Scale))
  /\ tool = "compare_positions" => a.date1 # NotIso /\ a.date2 # NotIso
ValidatorReasons ==
  {"Invalid latitude or longitude", "Latitude must be between -90 and 90",
   "Longitude must be between -180 and 180"}

\* the outcome of a request to a known tool with good arguments, which
\* computed (returned or thrown) the value `computed`
AnswersComputed(computed) ==
  /\ out.status = (IF computed.ok THEN 200 ELSE 500)
  /\ out.status = 500
       => /\ out.error = computed.error
          /\ out.error # ""
          /\ out.error \notin ValidatorReasons
  /\ ProviderThrew => out.status = 500 /\ out.error = "ProviderError"
  /\ out.status = 200 => out.value = computed.value

\* C19: the REST handler answers every request with exactly one of 404 (the
\* tool is unknown), 400 (the arguments fail the schema; a reason is given
\* and nothing is computed), 500 (the computation raised an error; the body
\* is its message) and 200 (the result).
C19_OneOutcomePerRequest ==
  op = "rest"
  => /\ out.status \in {200, 400, 404, 500}
     /\ (out.status = 404) = (args.tool \notin Range(Tools))
     /\ (out.status = 400) = (/\ args.tool \in Range(Tools)
                              /\ ~GoodArguments(args.tool, args.a))
     /\ out.status = 400
          => /\ out.calls = <<>>
             /\ Len(out.error) > Len("Validation Error: ")
     /\ out.status \in {200, 500}
          => AnswersComputed(
               ToolFunction(args.tool, ParsedArgs(args.tool, args.a), sky))

\* C19 witness: a latitude of 91 and a longitude of -181 are refused with
\* 400 and both reasons, and the provider has not been called
C19_Witness ==
  /\ op = "rest"
  /\ args.tool = "get_zodiac_sign"
  /\ out.status = 400
  /\ out.error = "Validation Error: latitude: Latitude must be <= 90 degrees, "
                   \o "longitude: Longitude must be >= -180 degrees"
  /\ out.calls = <<>>

\* ---------------------------------------------------------------- C20
\* the MCP outcome agrees with what the REST handler answers: refused with
\* refused, error with error, payload with the same payload
AgreesWith(rest) ==
  /\ out.rejected = (rest.status \in {400, 404})
  /\ out.isError = (rest.status = 500)
  /\ (~out.rejected /\ ~out.isError) => out.value = rest.value

\* C20: for every tool and every argument set, the MCP server refuses the
\* arguments exactly when the REST handler does, reports an error exactly
\* when the REST handler does, and otherwise its text block holds the
\* payload the REST handler returns.
C20_SurfacesEquivalent ==
  op = "mcp" => AgreesWith(handler(args.tool, args.a, sky))

\* ---------------------------------------------------------------- C21
\* the operations that derive a result from provider calls
DerivedOps ==
  {"getEphemerisData", "calculateAspects", "getMoonPhase", "getDailyEvents",
   "getZodiacSign", "comparePositions"}
ThrowsAt(call) == sky[call.minute].throws
\* what a failed operation has returned of its result: nothing
NoPartialResult ==
  /\ op = "getDailyEvents" => out.value.events = <<>>
  /\ op = "comparePositions" => out.value.comparison.keys = <<>>
  /\ op = "calculateAspects" => out.value.aspects = <<>>

\* C21: when the provider raises an error on a call of a derived operation
\* (any sample of the daily scan, either call of the comparison) the
\* operation fails with that error unchanged, returns nothing of what it had
\* computed, and the failed call is its last: it is not made again.
C21_FailsAtomically ==
  (/\ op \in DerivedOps
   /\ OwedReason(args.latitude, args.longitude) = ""
   /\ ProviderThrew)
  => /\ ~out.ok
     /\ out.error = "ProviderError"
     /\ NoPartialResult
     /\ out.calls # <<>>
     /\ ThrowsAt(out.calls[Len(out.calls)])
     /\ \A i \in 1 .. Len(out.calls) - 1 : ~ThrowsAt(out.calls[i])

\* C21 witness: the provider throws at the 31st sample (07:30) of a day on
\* which a rising event had been collected at an earlier sample
C21_Witness ==
  /\ op = "getDailyEvents"
  /\ ~out.ok
  /\ out.error = "ProviderError"
  /\ Len(out.calls) = 31
  /\ Scan(args, ScanDate, sky, 30).events # <<>>
  /\ out.value.events = <<>>

\* ---------------------------------------------------------------- C22
\* sample k of the scanned day is numeric: the provider answered with a
\* position whose altitude and azimuth are numbers
Numeric(k) ==
  /\ ~SampleOf(k).throws
  /\ SampleOf(k).tab[args.body].present
  /\ SampleOf(k).tab[args.body].hasAltaz
  /\ IsNumberType(SampleAltitude(k))
  /\ IsNumberType(SampleOf(k).tab[args.body].azimuth)
\* the last numeric sample before k (-1 if there is none)
PreviousNumeric(k) ==
  LET before == {j \in 0 .. k - 1 : Numeric(j)}
  IN IF before = {} THEN -1 ELSE CHOOSE j \in before : \A i \in before : i <= j
\* how many of the events are of the kind and at the time of sample k
CountAt(events, kind, k) ==
  LET Is(e) == e.event = kind /\ e.time = TestDate(ScanDate, k)
  IN Len(SelectSeq(events, Is))
\* the events pushed by the loop are those of the sign changes, a rising
\* event being owed when the altitude went from negative to non-negative
SignChanges(events) ==
  \A k \in 0 .. NumSamples - 1 :
    Numeric(k) =>
      LET j == PreviousNumeric(k)
      IN /\ CountAt(events, "rising", k) + CountAt(events, "setting", k) <= 1
         /\ j = -1 => CountAt(events, "rising", k) + CountAt(events, "setting", k) = 0
         /\ j # -1 =>
              /\ CountAt(events, "rising", k) = 1
                   <=> (JsLt(SampleAltitude(j), Deg(0)) /\ JsGe(SampleAltitude(k), Deg(0)))
              /\ CountAt(events, "setting", k) = 1
                   <=> (JsGt(SampleAltitude(j), Deg(0)) /\ JsLt(SampleAltitude(k), Deg(0)))

\* C22: at every numeric sample with a previous numeric sample, a rising
\* event is emitted iff the altitude went from negative to non-negative and
\* a setting event iff it went from positive to negative; no event at the
\* first numeric sample, at most one event per sample.
C22_RisingAtNonNegative ==
  (op = "getDailyEvents" /\ out.ok)
  => SignChanges(Scan(args, ScanDate, sky, NumSamples).events)

\* ---------------------------------------------------------------- C23
\* some numeric sample of the scanned day is above the horizon
AboveHorizonSeen ==
  \E k \in 0 .. NumSamples - 1 : Numeric(k) /\ JsGt(SampleAltitude(k), Deg(0))
Culminations(events) ==
  LET Is(e) == e.event = "culmination" IN SelectSeq(events, Is)
OneCulmination(culminations) ==
  /\ Len(culminations) = (IF AboveHorizonSeen THEN 1 ELSE 0)
  /\ \A i \in 1 .. Len(culminations) : culminations[i].azimuth = Deg(180)

\* C23: before the sort and the cut, the events of a scanned day hold
\* exactly one culmination when some numeric sample has altitude > 0 and
\* none otherwise; the azimuth of a culmination is 180 whatever the
\* sampled azimuth.
C23_CulminationIffAbove ==
  (op = "getDailyEvents" /\ out.ok) => OneCulmination(Culminations(Emitted))

\* C23 witness: a day with one culmination, at 12:00, where the sampled
\* azimuth is 138 and the reported one 180
C23_Witness ==
  /\ op = "getDailyEvents"
  /\ out.ok
  /\ AboveHorizonSeen
  /\ Len(Culminations(Emitted)) = 1
  /\ Culminations(Emitted)[1].time = TestDate(ScanDate, 48)
  /\ SampleOf(48).tab[args.body].azimuth = Deg(138)
  /\ Culminations(Emitted)[1].azimuth = Deg(180)

\* ---------------------------------------------------------------- C24
\* the scan states after sample lo, lo + 1, ..., hi - 1 of the request's
\* day, the scan being in state st before sample lo
RECURSIVE ScanStates(_, _, _)
ThenScanStates(left, mid, hi) == left \o ScanStates(left[Len(left)], mid, hi)
ScanStates(st, lo, hi) ==
  IF hi <= lo THEN <<>>
  ELSE IF hi = lo + 1 THEN <<ScanStep(st, args, ScanDate, sky, lo)>>
  ELSE ThenScanStates(ScanStates(st, lo, (lo + hi) \div 2), (lo + hi) \div 2, hi)
\* the altitudes of the day's samples, in sample order: for the i-th
\* sample, whether it is numeric with an ordered altitude, and that altitude
Heights ==
  SubSeq([i \in 1 .. NumSamples |->
            IF Numeric(i - 1) /\ IsFinite(SampleAltitude(i - 1))
              THEN [seen |-> TRUE, altitude |-> SampleAltitude(i - 1)]
              ELSE [seen |-> FALSE, altitude |-> Undefined]],
         1, NumSamples)
\* the number of the sample taken at instant t of the request's day
SampleNumber(t) ==
  1 + (t - TestDate(ScanDate, 0)) \div ((60 \div SamplesPerHour) * MsPerMinute)
\* the scan state st after the first k samples holds the greatest of -90
\* and the altitudes seen, and the time of the earliest sample that has it
MaximumTracked(st, k, heights) ==
  /\ JsGe(st.maxAltitude, Deg(-90))
  /\ \A j \in 1 .. k : heights[j].seen => JsLe(heights[j].altitude, st.maxAltitude)
  /\ st.maxAltitudeTime.given
       <=> (\E j \in 1 .. k : heights[j].seen /\ heights[j].altitude = st.maxAltitude)
  /\ ~st.maxAltitudeTime.given => st.maxAltitude = Deg(-90)
  /\ st.maxAltitudeTime.given =>
       /\ st.maxAltitudeTime.t = TestDate(ScanDate, SampleNumber(st.maxAltitudeTime.t) - 1)
       /\ SampleNumber(st.maxAltitudeTime.t) \in 1 .. k
       /\ heights[SampleNumber(st.maxAltitudeTime.t)].seen
       /\ heights[SampleNumber(st.maxAltitudeTime.t)].altitude = st.maxAltitude
       /\ \A j \in 1 .. SampleNumber(st.maxAltitudeTime.t) - 1 :
            heights[j].seen => JsLt(heights[j].altitude, st.maxAltitude)
AllTracked(states, heights) ==
  /\ Len(states) = NumSamples
  /\ \A k \in 1 .. Len(states) : MaximumTracked(states[k], k, heights)
\* the culminations returned are that of the scan state at the end of the day
CulminationOf(culminations, st) ==
  \A i \in 1 .. Len(culminations) :
    /\ culminations[i].altitude = Round2(st.maxAltitude)
    /\ culminations[i].time = st.maxAltitudeTime.t
EndOfDay(st, heights) ==
  /\ MaximumTracked(st, NumSamples, heights)
  /\ CulminationOf(Culminations(out.value.events), st)

Readings ==
  SubSeq([i \in 1 .. NumSamples |->
            [numeric |-> Numeric(i - 1), altitude |-> SampleAltitude(i - 1)]],
         1, NumSamples)
\* the scan state before the k-th sample
StateBefore(states, k) == IF k = 1 THEN ScanInit ELSE states[k - 1]
\* the k-th sample has changed nothing but the list of provider calls
LeftAlone(before, after) ==
  /\ after.ok
  /\ after.events = before.events
  /\ after.previousAltitude = before.previousAltitude
  /\ after.maxAltitude = before.maxAltitude
  /\ after.maxAltitudeTime = before.maxAltitudeTime
\* previous is the altitude of the last numeric sample among the first k
LastNumeric(previous, k, readings) ==
  \/ /\ previous = Undefined
     /\ \A i \in 1 .. k : ~readings[i].numeric
  \/ \E j \in 1 .. k :
       /\ readings[j].numeric
       /\ readings[j].altitude = previous
       /\ \A i \in j + 1 .. k : ~readings[i].numeric
GapsSkipped(states, readings) ==
  /\ Len(states) = NumSamples
  /\ \A k \in 1 .. NumSamples :
       /\ ~readings[k].numeric => LeftAlone(StateBefore(states, k), states[k])
       /\ LastNumeric(states[k].previousAltitude, k, readings)
NoEventInGap(events, readings) ==
  \A i \in 1 .. Len(events) :
    events[i].event # "culmination" => readings[SampleNumber(events[i].time)].numeric

DayStart == ScanDate - (ScanDate % MsPerDay)
QuarterHour == 15 * MsPerMinute
\* the calls are those of the 96 quarter hours of the day, in order
QuarterHourCalls(calls) ==
  /\ Len(calls) = 96
  /\ \A i \in 1 .. Len(calls) :
       /\ calls[i].minute * MsPerMinute = DayStart + (i - 1) * QuarterHour
       /\ calls[i].latitude = args.latitude
       /\ calls[i].longitude = args.longitude
  /\ \A i \in 1 .. Len(calls) - 1 : calls[i].minute < calls[i + 1].minute
\* the loop's events are in the order of their samples, at quarter hours
InSampleOrder(events) ==
  /\ \A i \in 1 .. Len(events) :
       /\ (events[i].time - DayStart) % QuarterHour = 0
       /\ (events[i].time - DayStart) \div QuarterHour \in 0 .. 95
  /\ \A i \in 1 .. Len(events) - 1 : events[i].time < events[i + 1].time

\* C26: for any input instant the scan makes exactly 96 provider calls, in
\* strictly increasing time order, at 00:00, 00:15, ..., 23:45 UTC of the
\* instant's UTC day with seconds and milliseconds zero, whatever the time
\* of day of the input; the sign comparison follows that order.
C26_NinetySixQuarterHours ==
  (op = "getDailyEvents" /\ out.ok)
  => /\ QuarterHourCalls(out.calls)
     /\ InSampleOrder(Scan(args, ScanDate, sky, NumSamples).events)

\* C26 witness: the input is 23:59:59.999 of the second day; the first
\* call is at 00:00 and the last at 23:45 of that day, and the scan has
\* emitted events
C26_Witness ==
  /\ op = "getDailyEvents"
  /\ out.ok
  /\ args.datetime = At(LateNextDay)
  /\ Len(out.calls) = 96
  /\ out.calls[1].minute = 24 * 60
  /\ out.calls[96].minute = 2 * 24 * 60 - 15
  /\ Len(out.value.events) >= 2

\* ---------------------------------------------------------------- C27
\* the separation the analyzer matches for the pair a, b
MatchedSeparation(a, b) == NormalizedAngle(PairAngle(LongitudeOf(a), LongitudeOf(b)))
InHalfCircle(x) == IsFinite(x) /\ 0 <= x.v /\ x.v <= 180 * Scale

\* C27: for every pair of bodies with usable longitudes a and b, the
\* separation matched against the aspect table, |a - b| > 180 ?
\* 360 - |a - b| : |a - b|, which is the angle of the pair's records, lies
\* in [0, 180].
C27_SeparationInHalfCircle ==
  (op = "calculateAspects" /\ out.ok)
  => /\ \A a \in KeptBodies, b \in KeptBodies :
          a # b => InHalfCircle(MatchedSeparation(a, b))
     /\ \A i \in DOMAIN out.value.aspects :
          /\ out.value.aspects[i].angle =
               MatchedSeparation(out.value.aspects[i].body1, out.value.aspects[i].body2)
          /\ InHalfCircle(out.value.aspects[i].angle)

\* ---------------------------------------------------------------- C28
\* e is an elongation in [0, 360) and p the phase angle |180 - e| in
\* [0, 180], 180 exactly at e = 0 and 0 exactly at e = 180
ElongationAndPhaseAngle(e, p) ==
  /\ IsFinite(e)
  /\ 0 <= e.v /\ e.v < 360 * Scale
  /\ IsFinite(p)
  /\ p.v = Dist(180 * Scale, e.v)
  /\ 0 <= p.v /\ p.v <= 180 * Scale
  /\ p = Deg(180) <=> e = Deg(0)
  /\ p = Deg(0) <=> e = Deg(180)
  /\ out.value.elongation = Round2(e)
  /\ out.value.phase_angle = Round2(p)

\* C28: for every pair of numeric sun and moon longitudes, getMoonPhase
\* computes elongation = ((moon - sun) + 360) mod 360 in [0, 360) and
\* phase_angle = |180 - elongation| in [0, 180], which is 180 exactly when
\* the elongation is 0 and 0 exactly when it is 180.
C28_ElongationInCircle ==
  (op = "getMoonPhase" /\ out.ok)
  => ElongationAndPhaseAngle(Elongation(SunLongitude, MoonLongitude),
                             PhaseAngle(Elongation(SunLongitude, MoonLongitude)))

\* ---------------------------------------------------------------- C29
\* the records of the result about the unordered pair a, b
PairRecords(a, b) ==
  {i \in DOMAIN out.value.aspects :
     {out.value.aspects[i].body1, out.value.aspects[i].body2} = {a, b}}
PairAspects(a, b) == {out.value.aspects[i].aspect : i \in PairRecords(a, b)}
OrbInBounds == RequestOrb >= Scale \div 10 /\ RequestOrb <= 15 * Scale

\* C29: with the table 0, 60, 90, 120, 180 and an orb in [0.1, 15], one
\* unordered pair has at most one record when orb < 15 and never more than
\* two; it has two only at orb = 15 with a separation of exactly 75
\* (sextile and square) or 105 (square and trine), and then both are
\* returned: none is dropped in favour of the other.
C29_AtMostOneBelowFifteen ==
  (op = "calculateAspects" /\ out.ok /\ OrbInBounds)
  => \A a \in KeptBodies, b \in KeptBodies :
       a # b =>
         /\ Cardinality(PairRecords(a, b)) <= 2
         /\ RequestOrb < 15 * Scale => Cardinality(PairRecords(a, b)) <= 1
         /\ Cardinality(PairRecords(a, b)) = 2 =>
              /\ RequestOrb = 15 * Scale
              /\ \/ /\ MatchedSeparation(a, b) = Deg(75)
                    /\ PairAspects(a, b) = {"sextile", "square"}
                 \/ /\ MatchedSeparation(a, b) = Deg(105)
                    /\ PairAspects(a, b) = {"square", "trine"}
         /\ (RequestOrb = 15 * Scale /\ MatchedSeparation(a, b) \in {Deg(75), Deg(105)})
              => Cardinality(PairRecords(a, b)) = 2

\* C29 witness: sun at 0 and mars at 75 with orb 15: a sextile and a
\* square of orb 15 each
C29_Witness ==
  /\ op = "calculateAspects"
  /\ out.ok
  /\ args.orb = Orb(Deg(15))
  /\ args.bodies = Given(<<"sun", "mars">>)
  /\ LongitudeOf("sun") = Deg(0)
  /\ LongitudeOf("mars") = Deg(75)
  /\ Len(out.value.aspects) = 2
  /\ out.value.aspects[1].aspect = "sextile"
  /\ out.value.aspects[2].aspect = "square"
  /\ out.value.aspects[1].orb = Deg(15)
  /\ out.value.aspects[2].orb = Deg(15)

\* ---------------------------------------------------------------- C30
\* no two consecutive events of the sequence are of the same kind
Alternate(events) ==
  \A i \in 1 .. Len(events) - 1 : events[i].event # events[i + 1].event

\* C30: in the time-ordered rising and setting events emitted by one scan,
\* rising and setting strictly alternate, whatever the sampled altitudes
\* (samples exactly on the horizon and skipped samples included).
C30_RisingSettingAlternate ==
  (op = "getDailyEvents" /\ out.ok)
  => /\ SortedByTime(Scan(args, ScanDate, sky, NumSamples).events)
     /\ Alternate(Scan(args, ScanDate, sky, NumSamples).events)

====
